---- MODULE Spec2Model ----
(***************************************************************************)
(* A model of the QED task dashboard (Django views over a Flowable BPM     *)
(* engine and its history database).                                       *)
(*                                                                         *)
(* The module holds several state machines over one list of variables;     *)
(* each specification drives one group of variables and leaves the other   *)
(* groups at their idle value:                                             *)
(*   SpecTasks    task visibility, task lists, claim and submit            *)
(*   SpecMerge    the ValueMap built by task_detail_view from its sources  *)
(*   SpecPopulate _populate_model_values on one form field                 *)
(*   SpecClient   the remote process client under every engine outcome     *)
(*   SpecBatch    bulk_delete_execute and bulk_start_view                  *)
(*   SpecSem      concurrent bulk_start_view requests and the semaphore    *)
(*   SpecAccess   role_required and login_required on every view           *)
(*   SpecHeadlines  _identify_headlines over a list of fields              *)
(*   SpecFields   process_fields over a list of sibling fields             *)
(*   SpecRow      one variable row resolved by _load_task_detail           *)
(*   SpecPage     a POST to task_detail_view: load, submission, reload     *)
(*   SpecStart    _submit_start_form and the tasks of the new instance     *)
(*   SpecResolve  the variable rows of a task resolved into variables_dict *)
(*   SpecPost     a POST to task_detail_view among other users' claims     *)
(*   SpecSubmit   the uploads and the payload of a form submission         *)
(*                                                                         *)
(* Text is modelled as a sequence of one-character strings, so that        *)
(* lower(), strip() and the substring test are computed and not assumed.   *)
(* Identifiers of users, groups and tasks are atomic strings.              *)
(***************************************************************************)
EXTENDS Integers, Sequences, FiniteSets, TLC

VARIABLES
    \* ---- history database and engine state (SpecTasks)
    hi_taskinst,        \* ACT_HI_TASKINST: task id -> [ASSIGNEE_, ended]
    ru_identitylink,    \* ACT_RU_IDENTITYLINK rows
    ru_raises,          \* a query on ACT_RU_IDENTITYLINK raises (the table does not exist)
    hi_identitylink,    \* ACT_HI_IDENTITYLINK rows
    hi_varinst_proc,    \* process instances that have rows in ACT_HI_VARINST
    resp,               \* the last HTTP response this system gave
    sent,               \* the engine call made while serving the last request
    \* ---- the ValueMap under construction in task_detail_view (SpecMerge)
    values_map,         \* dict: key -> value
    merge_pc,           \* the merge step that runs next
    hist_listing,       \* the form instances the engine listed for the historic step
    \* ---- _populate_model_values at work on one field (SpecPopulate)
    pop_field,          \* the field dict, mutated in place
    pop_map,            \* the values_map argument
    pop_pc,             \* the step of process_fields that runs next
    \* ---- one call of the remote process client (SpecClient)
    client,             \* the function called, the engine outcomes it met, its result
    \* ---- one batch request: bulk_delete_execute or bulk_start_view (SpecBatch)
    batch,              \* the items, the futures, the counters and the response
    \* ---- concurrent bulk_start_view requests and the shared semaphore (SpecSem)
    semaphore,          \* bulk_upload.semaphore: the number of free permits
    starts,             \* the bulk-start requests that run at the same time
    \* ---- role_required / login_required in front of the views (SpecAccess)
    access,             \* the response of the last request to a protected view
    \* ---- _identify_headlines at work on one field list (SpecHeadlines)
    headlines,          \* the field list given to _identify_headlines and the loop index
    \* ---- process_fields over a list of sibling fields (SpecFields)
    plist,              \* process_fields at work on one list of sibling fields
    \* ---- one variable row resolved by _load_task_detail (SpecRow)
    varrow,             \* one row of ACT_HI_VARINST resolved by _load_task_detail
    \* ---- task_detail_view from the initial load to the rendered page (SpecPage)
    page,               \* one POST to task_detail_view: its sources, what the initial load built, what is rendered
    \* ---- _submit_start_form and the tasks of the instance it starts (SpecStart)
    started,            \* one call of _submit_start_form: the tasks of the new process instance and the fixup
    \* ---- the variable rows of one task resolved into variables_dict (SpecResolve)
    resolving,          \* the loop of _load_task_detail over the variable rows of one task
    \* ---- SpecPost: a POST to task_detail_view among the requests of other users
    post,               \* the POST to task_detail_view that is being served
    \* ---- SpecSubmit: the uploads and the payload of a form submission
    posting             \* the uploads and the form submission of a POST to task_detail_view

taskVars == <<hi_taskinst, ru_identitylink, ru_raises, hi_identitylink, hi_varinst_proc, resp,
              sent>>

mergeVars == <<values_map, merge_pc, hist_listing>>

popVars == <<pop_field, pop_map, pop_pc>>

clientVars == <<client>>

batchVars == <<batch>>

semVars == <<semaphore, starts>>

accessVars == <<access>>

headVars == <<headlines>>

fieldsVars == <<plist>>

rowVars == <<varrow>>

pageVars == <<page>>

startVars == <<started>>

resolveVars == <<resolving>>

postVars == <<post>>

submitVars == <<posting>>

nonTaskVars == <<mergeVars, popVars, clientVars, batchVars, semVars, accessVars, headVars, fieldsVars, rowVars, pageVars, startVars, resolveVars, postVars, submitVars>>

nonMergeVars == <<taskVars, popVars, clientVars, batchVars, semVars, accessVars, headVars, fieldsVars, rowVars, pageVars, startVars, resolveVars, postVars, submitVars>>

nonPopVars == <<taskVars, mergeVars, clientVars, batchVars, semVars, accessVars, headVars, fieldsVars, rowVars, pageVars, startVars, resolveVars, postVars, submitVars>>

nonClientVars == <<taskVars, mergeVars, popVars, batchVars, semVars, accessVars, headVars, fieldsVars, rowVars, pageVars, startVars, resolveVars, postVars, submitVars>>

nonBatchVars == <<taskVars, mergeVars, popVars, clientVars, semVars, accessVars, headVars, fieldsVars, rowVars, pageVars, startVars, resolveVars, postVars, submitVars>>

nonSemVars == <<taskVars, mergeVars, popVars, clientVars, batchVars, accessVars, headVars, fieldsVars, rowVars, pageVars, startVars, resolveVars, postVars, submitVars>>

nonAccessVars == <<taskVars, mergeVars, popVars, clientVars, batchVars, semVars, headVars, fieldsVars, rowVars, pageVars, startVars, resolveVars, postVars, submitVars>>

nonHeadVars == <<taskVars, mergeVars, popVars, clientVars, batchVars, semVars, accessVars, fieldsVars, rowVars, pageVars, startVars, resolveVars, postVars, submitVars>>

nonFieldsVars == <<taskVars, mergeVars, popVars, clientVars, batchVars, semVars, accessVars, headVars, rowVars, pageVars, startVars, resolveVars, postVars, submitVars>>

nonRowVars == <<taskVars, mergeVars, popVars, clientVars, batchVars, semVars, accessVars, headVars, fieldsVars, pageVars, startVars, resolveVars, postVars, submitVars>>

nonPageVars == <<taskVars, mergeVars, popVars, clientVars, batchVars, semVars, accessVars, headVars, fieldsVars, rowVars, startVars, resolveVars, postVars, submitVars>>

nonStartVars == <<taskVars, mergeVars, popVars, clientVars, batchVars, semVars, accessVars, headVars, fieldsVars, rowVars, pageVars, resolveVars, postVars, submitVars>>

nonResolveVars == <<taskVars, mergeVars, popVars, clientVars, batchVars, semVars, accessVars, headVars, fieldsVars, rowVars, pageVars, startVars, postVars, submitVars>>

nonPostVars == <<taskVars, mergeVars, popVars, clientVars, batchVars, semVars, accessVars, headVars, fieldsVars, rowVars, pageVars, startVars, resolveVars, submitVars>>

\* a POST to task_detail_view works on the task tables as well
nonPostTaskVars == <<mergeVars, popVars, clientVars, batchVars, semVars, accessVars, headVars, fieldsVars, rowVars, pageVars, startVars, resolveVars, submitVars>>

nonSubmitVars == <<taskVars, mergeVars, popVars, clientVars, batchVars, semVars, accessVars, headVars, fieldsVars, rowVars, pageVars, startVars, resolveVars, postVars>>

vars == <<taskVars, mergeVars, popVars, clientVars, batchVars, semVars, accessVars, headVars, fieldsVars, rowVars, pageVars, startVars, resolveVars, postVars, submitVars>>

----------------------------------------------------------------------------
(* Text helpers                                                            *)

\* Python None / SQL NULL for identifiers
NULL == "NULL"

\* Python None / SQL NULL for text values (no text has a 4-letter element)
None == <<"None">>

UpperLetters == <<"A","B","C","D","E","F","G","H","I","J","K","L","M",
                  "N","O","P","Q","R","S","T","U","V","W","X","Y","Z">>

LowerLetters == <<"a","b","c","d","e","f","g","h","i","j","k","l","m",
                  "n","o","p","q","r","s","t","u","v","w","x","y","z">>

\* str.lower() on one character
LowerCh(c) ==
    IF \E i \in DOMAIN UpperLetters : UpperLetters[i] = c
    THEN LowerLetters[CHOOSE i \in DOMAIN UpperLetters : UpperLetters[i] = c]
    ELSE c

\* str.lower()
lower(s) == [i \in DOMAIN s |-> LowerCh(s[i])]

\* characters removed by str.strip()
Whitespace == {" "}

\* str.strip()
RECURSIVE strip(_)
strip(s) ==
    IF s = <<>> THEN s
    ELSE IF Head(s) \in Whitespace THEN strip(Tail(s))
    ELSE IF s[Len(s)] \in Whitespace THEN strip(SubSeq(s, 1, Len(s) - 1))
    ELSE s

\* the Python test `q in s` on text
contains(s, q) ==
    \E i \in 1..(Len(s) - Len(q) + 1) : SubSeq(s, i, i + Len(q) - 1) = q

\* `x or ""`
or_empty(x) == IF x = None THEN <<>> ELSE x

----------------------------------------------------------------------------
(* Idle values of the variable groups a specification does not drive       *)

\* the empty dict {}: a dict is the sequence of its items in insertion order
EmptyMap == <<>>

\* no list of form instances has been fetched
NoListing == [outcome |-> "none", data |-> <<>>]

MergeIdle == values_map = EmptyMap /\ merge_pc = "idle" /\ hist_listing = NoListing

\* no field is being processed
NoField == [id |-> None, name |-> None, type |-> None, value |-> None, options |-> <<>>]

PopIdle == pop_field = NoField /\ pop_map = EmptyMap /\ pop_pc = "idle"

\* no client call is under way
NoClientCall == [fn |-> "none", met |-> <<>>, raised |-> "none", value |-> "none"]

ClientIdle == client = NoClientCall

\* no response of a batch view yet
NoBatchResp == [status |-> 0, kind |-> "none", total |-> 0, succeeded |-> 0, failed |-> 0]

\* no batch request is being served
NoBatch ==
    [view |-> "none", pc |-> "idle", rows |-> <<>>, fut |-> <<>>, seen |-> {},
     success |-> {}, failed |-> {}, resp |-> NoBatchResp]

BatchIdle == batch = NoBatch

\* bulk_upload.py: the size of the thread pool and of the semaphore
MAX_PARALLEL == 5

\* a bulk-start request that is not running
NoStart == [pc |-> "idle", queued |-> 0, waiting |-> 0, holding |-> 0, http |-> 0, done |-> 0]

\* semaphore = Semaphore(MAX_PARALLEL) at import; no request is being served
SemIdle == semaphore = MAX_PARALLEL /\ starts = <<>>

\* no request to a protected view has been answered
NoAccess == [view |-> "none", user |-> "none", is_ajax |-> FALSE, status |-> 0,
             body |-> "none", reached |-> FALSE]

AccessIdle == access = NoAccess

\* _identify_headlines is not running
NoHeadlines == [pc |-> "idle", given |-> <<>>, fields |-> <<>>, i |-> 0]

HeadIdle == headlines = NoHeadlines

\* process_fields is not running
NoList == [pc |-> "idle", fields |-> <<>>, vm |-> <<>>, reached |-> {}]

FieldsIdle == plist = NoList

\* no variable row is being resolved
NoRow == [pc |-> "idle", v_type |-> "", v_text |-> <<"None">>, v_long |-> <<"None">>,
          v_double |-> <<"None">>, v_bytes |-> <<>>, listed |-> FALSE, value |-> <<"None">>]

RowIdle == varrow = NoRow

\* no page is being built
NoForm == [vm |-> <<>>, fields |-> <<>>]

NoSources == [listing |-> [outcome |-> "none", data |-> <<>>], variables |-> <<>>,
              rest_vars |-> <<>>, proc_vars |-> <<>>, hist_vars |-> <<>>, flat |-> <<>>,
              layout |-> "none"]

NoPage == [pc |-> "idle", src |-> NoSources, initial |-> NoForm, shown |-> NoForm,
           submit_error |-> <<>>, submit_success |-> FALSE, engine_message |-> ""]

PageIdle == page = NoPage

\* no process instance is being started
NoStarted == [pc |-> "idle", user_id |-> "NULL", tasks |-> <<>>, i |-> 0]

StartIdle == started = NoStarted

\* no variable rows are being resolved
NoResolving == [pc |-> "idle", rows |-> <<>>, i |-> 0, variables_dict |-> <<>>]

ResolveIdle == resolving = NoResolving

\* no POST to task_detail_view is being served
NoPost == [pc |-> "idle", user |-> "NULL", task |-> "NULL", was_assignee |-> FALSE, claimed_by |-> "NULL"]

PostIdle == post = NoPost

\* no form is being posted
NoPosting ==
    [pc |-> "idle", FILES |-> <<>>, form |-> [flat |-> <<>>, layout |-> <<>>], POST |-> <<>>,
     i |-> 0, upload_errors |-> <<>>, log |-> <<>>, submit_error |-> FALSE,
     submit_success |-> FALSE]

SubmitIdle == posting = NoPosting

----------------------------------------------------------------------------
(* The task world: users, groups, tasks                                    *)

Users == {"alice", "bob"}

Groups == {"G"}

\* Tasks that have a row in ACT_HI_TASKINST
Tasks == {"t1", "t2"}

\* "t0" is an id no task has
TaskIds == Tasks \cup {"t0"}

\* ACT_ID_MEMBERSHIP: alice is in group G, bob is in no group
ACT_ID_MEMBERSHIP == {[USER_ID_ |-> "alice", GROUP_ID_ |-> "G"]}

\* T.PROC_INST_ID_: one process instance per task
PROC_INST_ID_(t) == IF t = "t1" THEN "p1" ELSE "p2"

\* T.NAME_
NAME_(t) == IF t = "t1" THEN <<"S","u","r","v","e","y">> ELSE <<"R","e","v","i","e","w">>

\* MAX(CASE WHEN NAME_='siteid' THEN TEXT_ END) per process instance
siteid(p) == IF p = "p1" THEN <<"S","1">> ELSE None

\* MAX(CASE WHEN NAME_='activitytype' THEN TEXT_ END) per process instance
activitytype(p) == IF p = "p1" THEN <<"B","F","S">> ELSE <<"P","L","V","A">>

\* The rows an identity-link table may hold
LinkRows ==
    [TASK_ID_ : Tasks, TYPE_ : {"candidate"}, USER_ID_ : Users, GROUP_ID_ : {NULL}]
    \cup [TASK_ID_ : Tasks, TYPE_ : {"candidate"}, USER_ID_ : {NULL}, GROUP_ID_ : Groups]
    \cup [TASK_ID_ : {"t1"}, TYPE_ : {"participant"}, USER_ID_ : {"alice"}, GROUP_ID_ : {NULL}]
    \cup [TASK_ID_ : {"t1"}, TYPE_ : {"participant"}, USER_ID_ : {NULL}, GROUP_ID_ : Groups]

\* Bound: identity-link rows in the two link tables together
MaxLinks == 1

\* Mutant of truthy: no identifier counts as set
truthy_never(v) == FALSE

\* Python truthiness of an identifier: None and "" are falsy
truthy(v) == v # NULL /\ v # ""

\* get_user_groups: the GROUP_ID_ of the user's membership rows (a failed
\* lookup is caught and gives [], as an empty table does)
get_user_groups(user_id) ==
    {m.GROUP_ID_ : m \in {r \in ACT_ID_MEMBERSHIP : r.USER_ID_ = user_id}}

\* Mutant of candidate_rows: the TYPE_ = 'candidate' condition is left out
candidate_rows_any_type(table, task_id, user_id, groups) ==
    {l \in table : /\ l.TASK_ID_ = task_id
                   /\ (l.USER_ID_ = user_id \/ l.GROUP_ID_ \in groups)}

\* WHERE TASK_ID_ = %s AND TYPE_ = 'candidate' AND (USER_ID_ = %s OR GROUP_ID_ IN (...))
candidate_rows(table, task_id, user_id, groups) ==
    {l \in table : /\ l.TASK_ID_ = task_id
                   /\ l.TYPE_ = "candidate"
                   /\ (l.USER_ID_ = user_id \/ l.GROUP_ID_ \in groups)}

\* What _load_task_detail returns when it returns None
NoDetail == [none |-> TRUE]

\* _load_task_detail(user_id, task_id): the permission check and the detail's
\* identity fields (variables and content items are modelled apart)
_load_task_detail(user_id, task_id) ==
    IF task_id \notin Tasks
    THEN NoDetail                                    \* if not row: return None
    ELSE
      LET row         == hi_taskinst[task_id]
          assignee    == row.ASSIGNEE_
          is_assignee == (assignee = user_id)
          groups      == get_user_groups(user_id)
          \* try: ... except Exception: pass
          in_ru       == /\ ~ru_raises
                         /\ candidate_rows(ru_identitylink, task_id, user_id, groups) # {}
          in_hi       == candidate_rows(hi_identitylink, task_id, user_id, groups) # {}
          can_claim   == IF is_assignee THEN FALSE
                         ELSE IF in_ru THEN TRUE ELSE in_hi
      IN  IF ~is_assignee /\ truthy(assignee)
          THEN NoDetail                              \* assigned to someone else
          ELSE IF ~is_assignee /\ ~can_claim
          THEN NoDetail                              \* not a candidate
          ELSE [id          |-> task_id,
                status      |-> IF row.ended THEN "Completed" ELSE "Pending",
                assignee    |-> assignee,
                can_claim   |-> can_claim,
                is_assignee |-> is_assignee]

\* The WHERE clause of get_user_task_stats over a joined row
task_stats_where(t, user_id, site_id, activity_type) ==
    LET T == hi_taskinst[t]
        p == PROC_INST_ID_(t)
    IN  /\ p \in hi_varinst_proc                     \* JOIN ... ON V.PROC_INST_ID_
        /\ \/ T.ASSIGNEE_ # NULL /\ T.ASSIGNEE_ = user_id
           \/ /\ T.ASSIGNEE_ = NULL
              /\ candidate_rows(hi_identitylink, t, user_id, get_user_groups(user_id)) # {}
        /\ (site_id # <<>> =>
              siteid(p) # None /\ contains(siteid(p), site_id))
        /\ (activity_type # <<>> =>
              activitytype(p) # None /\ activitytype(p) = activity_type)

\* get_user_task_stats: the listed tasks and the two counts
get_user_task_stats(user_id, site_id, activity_type) ==
    LET rows == {t \in Tasks : task_stats_where(t, user_id, site_id, activity_type)}
    IN  [tasks     |-> rows,
         completed |-> Cardinality({t \in rows : hi_taskinst[t].ended}),
         pending   |-> Cardinality({t \in rows : ~hi_taskinst[t].ended})]

\* The Python filters of my_tasks_view over the listed tasks
my_tasks_filter(tasks, status_filter, name_query, site_query, activity_query) ==
    {t \in tasks :
        /\ (status_filter = "pending" => ~hi_taskinst[t].ended)
        /\ (status_filter = "completed" => hi_taskinst[t].ended)
        /\ (name_query # <<>> => contains(lower(or_empty(NAME_(t))), lower(name_query)))
        /\ (site_query # <<>> =>
              contains(lower(or_empty(siteid(PROC_INST_ID_(t)))), lower(site_query)))
        /\ (activity_query # <<>> =>
              contains(lower(or_empty(activitytype(PROC_INST_ID_(t)))), lower(activity_query)))}

----------------------------------------------------------------------------
(* HTTP responses of the task endpoints                                    *)

\* request.GET has no "error" parameter
Absent == "absent"

\* Mutant of task_detail_api: a task that exists but is not permitted is
\* answered 403 instead of 404
task_detail_api_forbidden(user, task_id) ==
    LET detail == _load_task_detail(user, task_id)
    IN  IF detail = NoDetail
        THEN IF task_id \in Tasks
             THEN [status |-> 403, body |-> "Forbidden", task |-> NoDetail]
             ELSE [status |-> 404, body |-> "Task not found", task |-> NoDetail]
        ELSE [status |-> 200, body |-> "detail", task |-> detail]

\* JsonResponse of task_detail_api
task_detail_api(user, task_id) ==
    LET detail == _load_task_detail(user, task_id)
    IN  IF detail = NoDetail
        THEN [status |-> 404, body |-> "Task not found", task |-> NoDetail]
        ELSE [status |-> 200, body |-> "detail", task |-> detail]

\* The page task_detail_view renders when the first load finds no detail
task_not_found_page(error) ==
    [status |-> 404,
     body   |-> IF error = Absent THEN "Task not found or not assigned to you." ELSE error,
     task   |-> NoDetail]

\* The page task_detail_view renders for a GET
task_detail_page(user, task_id, error) ==
    LET detail == _load_task_detail(user, task_id)
    IN  IF detail = NoDetail
        THEN task_not_found_page(error)
        ELSE [status |-> 200, body |-> "task_detail.html", task |-> detail]

\* No response yet / no engine call in the last request
NoResp == [op |-> "none", requester |-> NULL, target |-> NULL, status |-> 0,
           body |-> "", shown |-> {}, others |-> {}]

NoCall == [kind |-> "none", user |-> NULL, task |-> NULL,
           unassigned |-> FALSE, candidate |-> FALSE,
           pending |-> FALSE, is_assignee |-> FALSE]

\* The tasks among `shown` that are assigned to a user other than `requester`
assigned_to_other(shown, requester) ==
    {t \in shown : truthy(hi_taskinst[t].ASSIGNEE_) /\ hi_taskinst[t].ASSIGNEE_ # requester}

\* The record of a response: the request (endpoint, authenticated user, task
\* id of the URL), the status and body given, and the tasks whose data it carries
response(op, requester, target, status, body, shown) ==
    [op |-> op, requester |-> requester, target |-> target, status |-> status,
     body |-> body, shown |-> shown, others |-> assigned_to_other(shown, requester)]

\* The record of an engine call, with the facts of the task when it is sent
engine_call(kind, user, task_id) ==
    [kind        |-> kind,
     user        |-> user,
     task        |-> task_id,
     unassigned  |-> task_id \in Tasks /\ ~truthy(hi_taskinst[task_id].ASSIGNEE_),
     candidate   |-> task_id \in Tasks /\
                     (candidate_rows(ru_identitylink, task_id, user, get_user_groups(user))
                      \cup candidate_rows(hi_identitylink, task_id, user, get_user_groups(user))) # {},
     pending     |-> task_id \in Tasks /\ ~hi_taskinst[task_id].ended,
     is_assignee |-> task_id \in Tasks /\ hi_taskinst[task_id].ASSIGNEE_ = user]

\* The answers the engine can give to a claim: 200 only for a runtime task
\* that has no assignee or is already assigned to the claimer; "error" is any
\* other status or a RequestException (_claim_task returns (False, message))
claim_outcomes(task_id, user) ==
    {"error"} \cup
    (IF task_id \in Tasks /\ ~hi_taskinst[task_id].ended
        /\ hi_taskinst[task_id].ASSIGNEE_ \in {NULL, user}
     THEN {"200"} ELSE {})

\* The answers the engine can give to a form submission: 2xx only for a
\* runtime task; "error" is a status raise_for_status rejects or a
\* RequestException (_submit_task_form returns (False, message))
submit_outcomes(task_id) ==
    {"error"} \cup
    (IF task_id \in Tasks /\ ~hi_taskinst[task_id].ended THEN {"2xx"} ELSE {})

\* Mutant of profile_flowable_id: alice has a profile that names another id
profile_flowable_id_other(user) ==
    IF user = "alice" THEN "bob" ELSE NULL

\* request.user.profile.flowable_id when hasattr(request.user, "profile"):
\* users are rows of django.contrib.auth's User, created by FlowableBackend
\* with username = ACT_ID_USER.ID_, and no model gives them a profile
profile_flowable_id(user) ==
    NULL

\* the flowable_user_id of claim_task_view
claim_user_id(user) ==
    IF truthy(profile_flowable_id(user)) THEN profile_flowable_id(user) ELSE user

dbVars == <<hi_taskinst, ru_identitylink, ru_raises, hi_identitylink, hi_varinst_proc>>

----------------------------------------------------------------------------
(* The task endpoints as actions                                           *)

\* Requests are served one after the other: a handler runs to its response
Idle == resp = NoResp

\* GET /api/tasks/<task_id>
TaskDetailApi(user, task_id) ==
    LET r == task_detail_api(user, task_id)
    IN  /\ Idle
        /\ UNCHANGED nonTaskVars
        /\ resp' = response("task_detail_api", user, task_id, r.status, r.body,
                            IF r.task = NoDetail THEN {} ELSE {task_id})
        /\ sent' = NoCall
        /\ UNCHANGED dbVars

\* GET /tasks/<task_id>/
TaskDetailGet(user, task_id, error) ==
    LET r == task_detail_page(user, task_id, error)
    IN  /\ Idle
        /\ UNCHANGED nonTaskVars
        /\ resp' = response("task_detail_view", user, task_id, r.status, r.body,
                            IF r.task = NoDetail THEN {} ELSE {task_id})
        /\ sent' = NoCall
        /\ UNCHANGED dbVars

\* POST /tasks/<task_id>/ : the uploads, the form submission and the reload
TaskDetailPost(user, task_id, error, uploads_ok, outcome) ==
    LET detail == _load_task_detail(user, task_id)
    IN  /\ Idle
        /\ UNCHANGED nonTaskVars
        /\ IF detail = NoDetail
           THEN /\ resp' = response("task_detail_view", user, task_id, 404,
                                    task_not_found_page(error).body, {})
                /\ sent' = NoCall
                /\ UNCHANGED dbVars
           ELSE IF ~uploads_ok
           THEN \* upload_errors: the form is not submitted
                /\ resp' = response("task_detail_view", user, task_id, 200, "submit_error", {task_id})
                /\ sent' = NoCall
                /\ UNCHANGED dbVars
           ELSE /\ outcome \in submit_outcomes(task_id)
                /\ sent' = engine_call("submit", user, task_id)
                /\ UNCHANGED <<ru_identitylink, ru_raises, hi_identitylink, hi_varinst_proc>>
                /\ IF outcome = "2xx"
                   THEN \* the engine completes the task; the view reloads the detail
                        /\ hi_taskinst' = [hi_taskinst EXCEPT ![task_id].ended = TRUE]
                        /\ resp' = IF (_load_task_detail(user, task_id))' = NoDetail
                                   THEN response("task_detail_view", user, task_id, 500, "TypeError", {})
                                   ELSE response("task_detail_view", user, task_id, 200,
                                                 "submit_success", {task_id})'
                   ELSE /\ hi_taskinst' = hi_taskinst
                        /\ resp' = response("task_detail_view", user, task_id, 200,
                                            "submit_error", {task_id})

\* /tasks/<task_id>/claim/ : no check precedes the call to _claim_task
ClaimTaskView(user, task_id, method, outcome) ==
    /\ Idle
    /\ UNCHANGED nonTaskVars
    /\ IF method # "POST"
       THEN /\ resp' = response("claim_task_view", user, task_id, 405, "Method not allowed", {})
            /\ sent' = NoCall
            /\ UNCHANGED dbVars
       ELSE /\ outcome \in claim_outcomes(task_id, claim_user_id(user))
            /\ sent' = engine_call("claim", claim_user_id(user), task_id)
            /\ UNCHANGED <<ru_identitylink, ru_raises, hi_identitylink, hi_varinst_proc>>
            /\ IF outcome = "200"
               THEN /\ hi_taskinst' = [hi_taskinst EXCEPT
                                          ![task_id].ASSIGNEE_ = claim_user_id(user)]
                    /\ resp' = response("claim_task_view", user, task_id, 302, "task_detail", {})
               ELSE /\ hi_taskinst' = hi_taskinst
                    /\ resp' = response("claim_task_view", user, task_id, 302, "error", {})

\* GET /api/tasks
MyTasksApi(user) ==
    LET stats == get_user_task_stats(user, <<>>, <<>>)
    IN  /\ Idle
        /\ UNCHANGED nonTaskVars
        /\ resp' = response("my_tasks_api", user, NULL, 200, "stats", stats.tasks)
        /\ sent' = NoCall
        /\ UNCHANGED dbVars

\* GET /tasks/?status=&name=&site=&activity=
MyTasksView(user, status_filter, name_query, site_query, activity_query) ==
    LET stats == get_user_task_stats(user, <<>>, <<>>)
        shown == my_tasks_filter(stats.tasks, status_filter, name_query,
                                 site_query, activity_query)
    IN  /\ Idle
        /\ UNCHANGED nonTaskVars
        /\ resp' = response("my_tasks_view", user, NULL, 200, "tasks.html", shown)
        /\ sent' = NoCall
        /\ UNCHANGED dbVars

\* GET /api/user-tasks?user=&site=&activity=
ApiUserTasks(requester, user_id, site_id, activity_type) ==
    LET stats == get_user_task_stats(user_id, site_id, activity_type)
    IN  /\ Idle
        /\ UNCHANGED nonTaskVars
        /\ resp' = response("api_user_tasks", requester, NULL, 200, "stats", stats.tasks)
        /\ sent' = NoCall
        /\ UNCHANGED dbVars

\* Request parameters
ErrorParams == {Absent, "boom"}

SiteQueries == {<<>>, <<"S">>, <<"s","1">>}

ActivityQueries == {<<>>, <<"B","F","S">>}

NameQueries == {<<>>, <<"s","u","r">>}

StatusFilters == {"", "pending", "completed"}

\* The contents ACT_HI_TASKINST may start with: ASSIGNEE_ is NULL or a user id
TaskRows ==
    {h \in [Tasks -> [ASSIGNEE_ : {NULL} \cup Users, ended : BOOLEAN]] :
        /\ h["t2"].ASSIGNEE_ # "alice"
        /\ ~h["t2"].ended}

TasksInit ==
    /\ hi_taskinst \in TaskRows
    /\ hi_varinst_proc \in {{"p1", "p2"}, {"p2"}}
    /\ ru_identitylink \in SUBSET LinkRows
    /\ hi_identitylink \in SUBSET LinkRows
    /\ Cardinality(ru_identitylink) + Cardinality(hi_identitylink) <= MaxLinks
    /\ ru_raises \in BOOLEAN
    /\ ru_raises => ru_identitylink = {}
    /\ resp = NoResp
    /\ sent = NoCall
    /\ MergeIdle
    /\ PopIdle
    /\ ClientIdle
    /\ BatchIdle /\ SemIdle /\ AccessIdle /\ HeadIdle /\ FieldsIdle /\ RowIdle /\ PageIdle /\ StartIdle /\ ResolveIdle /\ PostIdle /\ SubmitIdle

\* The response leaves the handler; the next request is served
RequestDone ==
    /\ resp # NoResp
    /\ resp' = NoResp
    /\ sent' = NoCall
    /\ UNCHANGED dbVars
    /\ UNCHANGED nonTaskVars

TasksNext ==
    \/ \E u \in Users, t \in TaskIds : TaskDetailApi(u, t)
    \/ \E u \in Users, t \in TaskIds, e \in ErrorParams : TaskDetailGet(u, t, e)
    \/ \E u \in Users, t \in TaskIds, e \in ErrorParams, up \in BOOLEAN,
          o \in {"2xx", "error"} : TaskDetailPost(u, t, e, up, o)
    \/ \E u \in Users, t \in TaskIds, m \in {"GET", "POST"},
          o \in {"200", "error"} : ClaimTaskView(u, t, m, o)
    \/ \E u \in Users : MyTasksApi(u)
    \/ \E u \in Users, st \in StatusFilters, n \in NameQueries, s \in SiteQueries,
          a \in ActivityQueries : MyTasksView(u, st, n, s, a)
    \/ \E r \in Users, u \in Users \cup {""}, s \in SiteQueries,
          a \in ActivityQueries : ApiUserTasks(r, u, s, a)
    \/ RequestDone

SpecTasks == TasksInit /\ [][TasksNext]_vars

----------------------------------------------------------------------------
(* Claims about task visibility, claim and submit (checked under SpecTasks) *)

\* A candidate identity link of task t (in the live or the history table)
\* names user u or one of u's groups
IsCandidate(u, t) ==
    \E l \in ru_identitylink \cup hi_identitylink :
        /\ l.TASK_ID_ = t
        /\ l.TYPE_ = "candidate"
        /\ \/ l.USER_ID_ = u
           \/ [USER_ID_ |-> u, GROUP_ID_ |-> l.GROUP_ID_] \in ACT_ID_MEMBERSHIP

\* The view-access rule of the specification
Permitted(u, t) ==
    \/ hi_taskinst[t].ASSIGNEE_ = u
    \/ hi_taskinst[t].ASSIGNEE_ = NULL /\ IsCandidate(u, t)

C3_NoTaskOfAnotherUser ==
    resp.op \in {"task_detail_view", "task_detail_api", "my_tasks_api",
                 "my_tasks_view", "api_user_tasks"}
        => resp.others = {}

\* The four endpoints that take the user from the session keep C3
OwnEndpointsHideOthers ==
    resp.op \in {"task_detail_view", "task_detail_api", "my_tasks_api", "my_tasks_view"}
        => resp.others = {}

\* C4: a claim call is sent to the engine only for a task that is unassigned
\* and a user who is a resolved candidate of it.
C4_ClaimOnlyByCandidate ==
    sent.kind = "claim" => sent.unassigned /\ sent.candidate

\* User u is a candidate of task t only through a group: no candidate link of
\* t names u, and a candidate link of t names a group of u in the live table,
\* or in the history table when the live lookup finds nothing or fails
GroupOnlyCandidate(u, t) ==
    LET names_group(l) == /\ l.TASK_ID_ = t
                          /\ l.TYPE_ = "candidate"
                          /\ [USER_ID_ |-> u, GROUP_ID_ |-> l.GROUP_ID_] \in ACT_ID_MEMBERSHIP
        live == IF ru_raises THEN {} ELSE {l \in ru_identitylink : names_group(l)}
    IN  /\ \A l \in ru_identitylink \cup hi_identitylink :
              ~(l.TASK_ID_ = t /\ l.TYPE_ = "candidate" /\ l.USER_ID_ = u)
        /\ \/ live # {}
           \/ live = {} /\ \E l \in hi_identitylink : names_group(l)

\* the detail of an unassigned task loaded for a group-only candidate
GroupCandidateMayClaim ==
    \A u \in Users, t \in Tasks :
        (hi_taskinst[t].ASSIGNEE_ = NULL /\ GroupOnlyCandidate(u, t)) =>
            /\ _load_task_detail(u, t) # NoDetail
            /\ _load_task_detail(u, t).can_claim
            /\ ~_load_task_detail(u, t).is_assignee

\* a successful claim of such a user makes that user the assignee
GroupCandidateClaimStep ==
    \A u \in Users, t \in Tasks :
        (/\ resp'.op = "claim_task_view"
         /\ resp'.body = "task_detail"
         /\ resp'.requester = u
         /\ resp'.target = t
         /\ hi_taskinst[t].ASSIGNEE_ = NULL
         /\ GroupOnlyCandidate(u, t))
            => /\ hi_taskinst'[t].ASSIGNEE_ = u
               /\ (_load_task_detail(u, t))'.is_assignee

C5_SubmitOnlyPendingAssignee ==
    sent.kind = "submit" => sent.pending /\ sent.is_assignee

\* C6: for a given requester the detail lookup (task_detail_api and
\* task_detail_view) answers a task that exists but is not permitted exactly
\* as it answers a task id that does not exist ("t0"): same status, same body.
C6_NotFoundIndistinguishable ==
    /\ \A u \in Users, t \in Tasks :
          ~Permitted(u, t) =>
             /\ task_detail_api(u, t) = task_detail_api(u, "t0")
             /\ \A e \in ErrorParams :
                   task_detail_page(u, t, e) = task_detail_page(u, "t0", e)
    /\ (resp.op \in {"task_detail_api", "task_detail_view"}
          /\ resp.target \in Tasks /\ resp.status # 200 /\ sent.kind = "none")
         => \E e \in ErrorParams :
               \/ /\ resp.op = "task_detail_api"
                  /\ resp.status = task_detail_api(resp.requester, "t0").status
                  /\ resp.body = task_detail_api(resp.requester, "t0").body
                  /\ resp.shown = {}
               \/ /\ resp.op = "task_detail_view"
                  /\ resp.status = task_detail_page(resp.requester, "t0", e).status
                  /\ resp.body = task_detail_page(resp.requester, "t0", e).body
                  /\ resp.shown = {}

\* C6 witness: a detail lookup has answered 404 for a task that exists and is
\* assigned to another user
C6_Witness ==
    /\ resp.op \in {"task_detail_api", "task_detail_view"}
    /\ resp.status = 404
    /\ resp.target \in Tasks
    /\ hi_taskinst[resp.target].ASSIGNEE_ \in Users \ {resp.requester}

----------------------------------------------------------------------------
(* Python dicts: a sequence of [key, value] items with distinct keys, in   *)
(* insertion order                                                         *)

\* k in d
dict_has(d, k) == \E i \in DOMAIN d : d[i].key = k

\* d[k]
dict_get(d, k) == d[CHOOSE i \in DOMAIN d : d[i].key = k].value

\* d[k] = v
dict_set(d, k, v) ==
    IF dict_has(d, k)
    THEN [i \in DOMAIN d |-> IF d[i].key = k THEN [key |-> k, value |-> v] ELSE d[i]]
    ELSE Append(d, [key |-> k, value |-> v])

\* d.update(e)
RECURSIVE dict_update(_, _)
dict_update(d, e) ==
    IF e = <<>> THEN d
    ELSE dict_update(dict_set(d, Head(e).key, Head(e).value), Tail(e))

\* the keys of d, as a set
dict_keys(d) == {d[i].key : i \in DOMAIN d}

----------------------------------------------------------------------------
(* The ValueMap merge of task_detail_view                                  *)

\* the field types that carry an option list
DropdownTypes == {<<"d","r","o","p","d","o","w","n">>,
                  <<"s","e","l","e","c","t">>,
                  <<"r","a","d","i","o","-","b","u","t","t","o","n","s">>}

txt_option_1 == <<"O","p","t","i","o","n"," ","1">>

txt_date == <<"d","a","t","e">>

\* the truth value of an id: None and "" are false
is_set(v) == v # None /\ v # <<>>

\* `v is not None and str(v).strip() != ""`
non_empty(v) == v # None /\ strip(v) # <<>>

\* {k: v for k, v in historic_form_values.items() if v is not None and str(v).strip() != ""}
valid_hist_values(h) == SelectSeq(h, LAMBDA item : non_empty(item.value))

\* step 0: historic form instances
merge_historic(vm, historic_form_values) ==
    IF historic_form_values # <<>>
    THEN dict_update(vm, valid_hist_values(historic_form_values))
    ELSE vm

\* the values of one form instance: form.get("values"), else the "values" of
\* the detail request when it answers 200, else nothing
form_values_of(form) ==
    IF form.values # <<>> THEN form.values
    ELSE IF form.detail.outcome = "200" THEN form.detail.values
    ELSE <<>>

\* the loop `for form in forms` from form i on; a request that raises ends
\* the function with the values gathered so far
RECURSIVE update_from_forms(_, _)
update_from_forms(values, forms) ==
    IF forms = <<>> THEN values
    ELSE IF ~is_set(Head(forms).id) THEN update_from_forms(values, Tail(forms))
    ELSE IF Head(forms).values = <<>> /\ Head(forms).detail.outcome = "raises" THEN values
    ELSE update_from_forms(dict_update(values, form_values_of(Head(forms))), Tail(forms))

\* _fetch_historic_form_instances_values: the form instances of the process
\* as listed by the engine, oldest submission first
_fetch_historic_form_instances_values(listing) ==
    IF listing.outcome = "200" THEN update_from_forms(<<>>, listing.data) ELSE <<>>

\* step 1: `for v in detail["variables"]: values_map[v["name"]] = v["value"]`
RECURSIVE merge_sql(_, _)
merge_sql(vm, variables) ==
    IF variables = <<>> THEN vm
    ELSE merge_sql(dict_set(vm, Head(variables).key, Head(variables).value),
                   Tail(variables))

\* step 1b: `values_map.update(rest_vars)`
merge_rest_task(vm, rest_vars) ==
    IF rest_vars # <<>> THEN dict_update(vm, rest_vars) ELSE vm

\* step 1c: `for k, v in proc_vars.items(): if k not in values_map: values_map[k] = v`
RECURSIVE merge_fill_gaps(_, _)
merge_fill_gaps(vm, proc_vars) ==
    IF proc_vars = <<>> THEN vm
    ELSE merge_fill_gaps(IF dict_has(vm, Head(proc_vars).key)
                         THEN vm
                         ELSE dict_set(vm, Head(proc_vars).key, Head(proc_vars).value),
                         Tail(proc_vars))

\* step 2 on one flat field
merge_flat_field(vm, f) ==
    LET f_id == f.id
        val == f.value
        f_type == lower(f.type)
        is_generic == contains(lower(val), lower(txt_option_1))
    IN  IF f_id = None \/ f_id = <<>> THEN vm
        ELSE IF ~non_empty(val) THEN vm
        ELSE IF is_generic /\ f_type \in DropdownTypes
             THEN vm
        ELSE IF f_type = txt_date THEN dict_set(vm, f_id, val)
        ELSE IF ~dict_has(vm, f_id) THEN dict_set(vm, f_id, val)
        ELSE vm

\* step 2: the fields of the flat form
RECURSIVE merge_flat(_, _)
merge_flat(vm, fields) ==
    IF fields = <<>> THEN vm
    ELSE merge_flat(merge_flat_field(vm, Head(fields)), Tail(fields))


\* Bounds of the merge inputs
MaxEntries == 2

MaxFields == 1

MergeKeys == {<<"c","l","i","e","n","t">>, <<"s","t","a","t","u","s">>}

MergeValues == {None, <<>>, <<" ">>, <<"A","c","m","e">>, txt_option_1}

\* the dicts of at most n of the given items
Dicts(items, n) ==
    {d \in UNION {[1..m -> items] : m \in 0..n} :
        \A i, j \in DOMAIN d : d[i].key = d[j].key => i = j}

MergeDicts == Dicts([key : MergeKeys, value : MergeValues], MaxEntries)

FlatFields ==
    UNION {[1..m -> [id : MergeKeys \cup {None}, value : MergeValues,
                     type : {<<"t","e","x","t">>, <<"d","r","o","p","d","o","w","n">>, <<"D","a","t","e">>}]] : m \in 0..MaxFields}

\* Bound: the form instances of one process instance
MaxSnapshots == 2

SnapshotValues == {None, <<>>, <<"A","c","m","e">>, <<"B","e","t","a">>}

\* the "values" of a form instance: at most one entry
SnapshotDicts == Dicts([key : MergeKeys, value : SnapshotValues], 1)

\* a listed form instance: its id, the "values" of the list entry ({} when
\* the entry has none) and the answer of the detail request, which is made
\* only for an entry without values
Snapshots ==
    {s \in [id : {<<"f">>, None}, values : SnapshotDicts,
            detail : [outcome : {"200"}, values : SnapshotDicts]
                         \cup [outcome : {"404", "raises"}, values : {<<>>}]] :
        s.values # <<>> => s.detail.outcome = "404"}

\* the answer of the list request: 200 with the form instances in the order
\* of submission, another status, or an exception
Listings ==
    [outcome : {"200"}, data : UNION {[1..n -> Snapshots] : n \in 0..MaxSnapshots}]
        \cup [outcome : {"500", "raises"}, data : {<<>>}]

\* The database and the response log while no task request is served
TasksIdle ==
    /\ hi_taskinst = [t \in Tasks |-> [ASSIGNEE_ |-> NULL, ended |-> FALSE]]
    /\ hi_varinst_proc = {}
    /\ ru_identitylink = {}
    /\ ru_raises = FALSE
    /\ hi_identitylink = {}
    /\ resp = NoResp
    /\ sent = NoCall

\* task_detail_view starts with `values_map = {}`
MergeBegin ==
    /\ merge_pc = "idle"
    /\ values_map' = EmptyMap
    /\ merge_pc' = "historic"
    /\ UNCHANGED hist_listing
    /\ UNCHANGED nonMergeVars

MergeHistoric(listing) ==
    /\ merge_pc = "historic"
    /\ values_map' = merge_historic(values_map, _fetch_historic_form_instances_values(listing))
    /\ merge_pc' = "sql"
    /\ hist_listing' = listing
    /\ UNCHANGED nonMergeVars

MergeSql(variables) ==
    /\ merge_pc = "sql"
    /\ values_map' = merge_sql(values_map, variables)
    /\ merge_pc' = "rest_task"
    /\ hist_listing' = NoListing
    /\ UNCHANGED nonMergeVars

MergeRestTask(rest_vars) ==
    /\ merge_pc = "rest_task"
    /\ values_map' = merge_rest_task(values_map, rest_vars)
    /\ merge_pc' = "rest_proc"
    /\ UNCHANGED hist_listing
    /\ UNCHANGED nonMergeVars

MergeRestProc(proc_vars) ==
    /\ merge_pc = "rest_proc"
    /\ values_map' = merge_fill_gaps(values_map, proc_vars)
    /\ merge_pc' = "rest_hist"
    /\ UNCHANGED hist_listing
    /\ UNCHANGED nonMergeVars

MergeRestHist(hist_vars) ==
    /\ merge_pc = "rest_hist"
    /\ values_map' = merge_fill_gaps(values_map, hist_vars)
    /\ merge_pc' = "flat"
    /\ UNCHANGED hist_listing
    /\ UNCHANGED nonMergeVars

MergeFlat(fields) ==
    /\ merge_pc = "flat"
    /\ values_map' = merge_flat(values_map, fields)
    /\ merge_pc' = "done"
    /\ UNCHANGED hist_listing
    /\ UNCHANGED nonMergeVars

\* the finished map is handed to _populate_model_values; the request ends
MergeDone ==
    /\ merge_pc = "done"
    /\ values_map' = EmptyMap
    /\ merge_pc' = "idle"
    /\ hist_listing' = NoListing
    /\ UNCHANGED nonMergeVars

MergeInit == TasksIdle /\ MergeIdle /\ PopIdle /\ ClientIdle /\ BatchIdle /\ SemIdle /\ AccessIdle /\ HeadIdle /\ FieldsIdle /\ RowIdle /\ PageIdle /\ StartIdle /\ ResolveIdle /\ PostIdle /\ SubmitIdle

MergeNext ==
    \/ MergeBegin
    \/ \E l \in Listings : MergeHistoric(l)
    \/ \E v \in MergeDicts : MergeSql(v)
    \/ \E d \in MergeDicts : MergeRestTask(d)
    \/ \E d \in MergeDicts : MergeRestProc(d)
    \/ \E d \in MergeDicts : MergeRestHist(d)
    \/ \E f \in FlatFields : MergeFlat(f)
    \/ MergeDone

SpecMerge == MergeInit /\ [][MergeNext]_vars

\* the merge steps that apply a source to the map
MergeSteps == {"historic", "sql", "rest_task", "rest_proc", "rest_hist", "flat"}

\* a merge step keeps every non-empty value non-empty
KeepsNonEmpty ==
    merge_pc \in MergeSteps =>
        \A k \in dict_keys(values_map) :
            non_empty(dict_get(values_map, k)) =>
                (dict_has(values_map', k) /\ non_empty(dict_get(values_map', k)))

\* C1: while the ValueMap is built, no merge step replaces an existing
\* non-empty value of a key by an empty (null or blank) value: a key that held
\* a non-empty value before a step holds a non-empty value after it.
C1_NonEmptyNeverEmptied == [][KeepsNonEmpty]_vars

\* a fill-gap step keeps every value the map holds
KeepsValues ==
    merge_pc \in {"rest_proc", "rest_hist"} =>
        \A k \in dict_keys(values_map) :
            (dict_has(values_map', k) /\ dict_get(values_map', k) = dict_get(values_map, k))

\* The fill-gap sources (REST process variables and REST historic variables)
\* never change the value of a key the map already holds
FillGapStepsKeepValues == [][KeepsValues]_vars

----------------------------------------------------------------------------
(* _populate_model_values: the steps of process_fields on one field        *)

CIRCLE_LIST ==
    <<<<"B","H">>,
      <<"C","G">>,
      <<"J","H">>,
      <<"R","J">>,
      <<"W","B">>,
      <<"N","E","S","A">>,
      <<"O","R">>,
      <<"K","K">>,
      <<"M","P">>,
      <<"H","R">>,
      <<"U","P"," ","E","a","s","t">>,
      <<"P","B">>,
      <<"M","G">>,
      <<"J","K">>,
      <<"D","L">>,
      <<"T","N">>,
      <<"K","L">>,
      <<"H","P">>,
      <<"U","P"," ","W","e","s","t">>,
      <<"A","P">>,
      <<"G","U","J">>>>

ACTIVITY_LIST ==
    <<<<"B","F","S">>,
      <<"P","L","V","A">>,
      <<"T","L","V","A">>,
      <<"P","L","V","A"," ","+"," ","S","T","R">>,
      <<"T","L","V","A"," ","+"," ","S","T","R">>,
      <<"V","e","r","t","i","c","a","l","i","t","y">>,
      <<"A","L","S">>,
      <<"R","R">>,
      <<"J","V"," ","-"," ","T","h","a","r">>,
      <<"R","R"," ","S","t","r",".">>,
      <<"J","V">>,
      <<"B","F","S"," ","S","t","r",".">>,
      <<"C","i","v","i","l"," ","S","u","r","v","e","y"," ","+"," ","D","w","g","s",".">>,
      <<"F","o","u","n","d","a","t","i","o","n"," ","D","e","s","i","g","n">>,
      <<"F","o","u","n","d","a","t","i","o","n"," ","S","t","r",".">>>>

\* str(v) on text or None
str(v) == IF v = None THEN <<"N","o","n","e">> ELSE v

\* the Python truth value of a text or None
is_true(v) == v # None /\ v # <<>>

\* s.replace(c, "") for a single character c
remove_char(s, c) == SelectSeq(s, LAMBDA x : x # c)

\* k_lower.replace("_", "").replace("-", "").replace(" ", "")
clean_key(k_lower) == remove_char(remove_char(remove_char(k_lower, "_"), "-"), " ")

\* var_name.lower().replace("_", "").replace("-", "")
clean_var(v_lower) == remove_char(remove_char(v_lower, "_"), "-")

\* normalized_map[k.lower()] = v, for the items of values_map in order
normalized_map(vm) ==
    dict_update(<<>>, [i \in DOMAIN vm |-> [key |-> lower(vm[i].key), value |-> vm[i].value]])

\* fuzzy_map[k_lower.replace(...)] = v, for the items of values_map in order
fuzzy_map(vm) ==
    dict_update(<<>>, [i \in DOMAIN vm |->
                          [key |-> clean_key(lower(vm[i].key)), value |-> vm[i].value]])

\* [{"name": c, "id": c} for c in names]
options_of(names) == [i \in DOMAIN names |-> [name |-> names[i], id |-> names[i]]]

\* `"option 1" in str(v).lower()`
is_generic(v) == contains(lower(str(v)), <<"o","p","t","i","o","n"," ","1">>)

\* OPTIONS POPULATION: known dropdown fields get their option list
repair_options(field) ==
    LET fid_lower == IF is_true(field.id) THEN lower(field.id) ELSE <<>>
        fname_lower == IF is_true(field.name) THEN lower(field.name) ELSE <<>>
        no_options == field.options = <<>>
        has_generic == \E i \in DOMAIN field.options : is_generic(field.options[i].name)
    IN  IF field.type \notin DropdownTypes THEN field
        ELSE IF contains(fid_lower, <<"c","i","r","c","l","e">>) /\ no_options
             THEN [field EXCEPT !.options = options_of(CIRCLE_LIST)]
        ELSE IF contains(fid_lower, <<"a","c","t","i","v","i","t","y">>) /\ no_options
             THEN [field EXCEPT !.options = options_of(ACTIVITY_LIST)]
        ELSE IF contains(fid_lower, <<"c","l","i","e","n","t">>) /\ no_options
             THEN [field EXCEPT !.options =
                       options_of(<<<<"I","n","d","u","s">>, <<"A","T","C">>, <<"S","i","t","e","l">>, <<"O","t","h","e","r">>>>)]
        ELSE IF contains(fid_lower, <<"a","l","l","o","c","a","t","i","o","n">>) /\ no_options
             THEN [field EXCEPT !.options = options_of(<<<<"S","i","n","g","l","e">>, <<"B","u","l","k">>, <<"A","u","t","o">>>>)]
        ELSE IF \/ contains(fid_lower, <<"f","o","r","w","a","r","d">>)
                \/ contains(fid_lower, <<"o","u","t","c","o","m","e">>)
                \/ contains(fname_lower, <<"f","o","r","w","a","r","d">>)
             THEN IF no_options \/ has_generic
                  THEN [field EXCEPT !.options = options_of(<<<<"Y","e","s">>, <<"N","o">>>>),
                                     !.value = IF is_generic(@) THEN None ELSE @]
                  ELSE field
        ELSE field

\* the value of the first of the names that is a key of nm, else the old value
RECURSIVE first_match(_, _, _)
first_match(names, nm, old) ==
    IF names = <<>> THEN old
    ELSE IF dict_has(nm, Head(names)) THEN dict_get(nm, Head(names))
    ELSE first_match(Tail(names), nm, old)

\* FORCE FILL: a field without a value takes the value of a well-known variable
backfill(field, nm) ==
    LET fid_lower == lower(field.id)
        date_vars == IF contains(fid_lower, <<"s","u","r","v","e","y">>) THEN <<<<"s","u","r","v","e","y","d","a","t","e">>>>
                     ELSE IF contains(fid_lower, <<"a","l","l","o","t","m","e","n","t">>) \/ contains(fid_lower, <<"a","l","l","o","c","a","t","i","o","n">>)
                          THEN <<<<"a","l","l","o","t","m","e","n","t","d","a","t","e">>, <<"a","l","l","o","c","a","t","i","o","n","d","a","t","e">>>>
                     ELSE <<<<"d","a","t","e">>>>
        names == IF contains(fid_lower, <<"c","i","r","c","l","e">>) THEN <<<<"c","i","r","c","l","e">>>>
                 ELSE IF contains(fid_lower, <<"c","l","i","e","n","t">>)
                      THEN <<<<"c","l","i","e","n","t">>, <<"c","l","i","e","n","t","n","a","m","e">>, <<"c","u","s","t","o","m","e","r">>, <<"v","e","n","d","o","r">>>>
                 ELSE IF contains(fid_lower, <<"d","a","t","e">>) THEN date_vars
                 ELSE IF contains(fid_lower, <<"a","c","t","i","v","i","t","y">>) THEN <<<<"a","c","t","i","v","i","t","y","t","y","p","e">>, <<"a","c","t","i","v","i","t","y">>>>
                 ELSE <<>>
    IN  IF ~is_true(field.value) /\ is_true(field.id)
        THEN [field EXCEPT !.value = first_match(names, nm, @)]
        ELSE field

\* safe_set_value: a None is written only over a field that has no value
safe_set_value(field, new_val) ==
    IF new_val # None THEN [field EXCEPT !.value = new_val]
    ELSE IF ~is_true(field.value) THEN [field EXCEPT !.value = new_val]
    ELSE field

\* the relaxed fuzzy match: the first fuzzy key longer than 3 that contains
\* the cleaned id or is contained in it
RECURSIVE relaxed_match(_, _, _)
relaxed_match(fm, clean_id, old) ==
    IF fm = <<>> THEN old
    ELSE IF /\ Len(Head(fm).key) > 3
            /\ (contains(clean_id, Head(fm).key) \/ contains(Head(fm).key, clean_id))
         THEN Head(fm).value
    ELSE relaxed_match(Tail(fm), clean_id, old)

\* Standard value mapping: exact, case-insensitive, fuzzy, relaxed fuzzy
lookup_value(field, vm, nm, fm) ==
    LET f_id == field.id
        clean_id == clean_key(lower(f_id))
    IN  IF ~is_true(f_id) THEN field
        ELSE IF dict_has(vm, f_id) THEN safe_set_value(field, dict_get(vm, f_id))
        ELSE IF dict_has(nm, lower(f_id)) THEN safe_set_value(field, dict_get(nm, lower(f_id)))
        ELSE IF dict_has(fm, clean_id) THEN safe_set_value(field, dict_get(fm, clean_id))
        ELSE IF ~is_true(field.value)
             THEN [field EXCEPT !.value = relaxed_match(fm, clean_id, @)]
        ELSE field

\* str(x).strip().lower()
fold(x) == lower(strip(str(x)))

\* the value is among the names or the ids of the options, case-folded
value_in_options(field) ==
    \E i \in DOMAIN field.options :
        fold(field.value) \in {fold(field.options[i].name), fold(field.options[i].id)}

\* Ensure Value is in Options (for Dropdowns)
ensure_option(field) ==
    IF /\ field.type \in DropdownTypes
       /\ field.options # <<>>
       /\ is_true(field.value)
       /\ ~value_in_options(field)
    THEN [field EXCEPT !.options = Append(@, [name |-> field.value, id |-> field.value])]
    ELSE field

\* the field types whose text may sit in 'name'
ExpressionTypes == {<<"e","x","p","r","e","s","s","i","o","n">>, <<"h","e","a","d","e","r">>, <<"f","o","r","m","a","t","t","e","d","-","t","e","x","t">>}

\* replacer: exact, then lower-cased, then fuzzy lookup of the variable name
replacer(var_name, vm, nm, fm) ==
    LET exact == IF dict_has(vm, var_name) THEN dict_get(vm, var_name) ELSE None
        folded == IF exact # None THEN exact
                  ELSE IF dict_has(nm, lower(var_name)) THEN dict_get(nm, lower(var_name))
                  ELSE None
        val == IF folded # None THEN folded
               ELSE IF dict_has(fm, clean_var(lower(var_name)))
                    THEN dict_get(fm, clean_var(lower(var_name)))
               ELSE <<>>
    IN  str(val)

\* the index of the "}" that ends the match of \$\{(.+?)\} at the head of s, or 0
match_end(s) ==
    IF /\ Len(s) >= 4
       /\ s[1] = "$"
       /\ s[2] = "{"
       /\ \E j \in 4..Len(s) : s[j] = "}"
    THEN CHOOSE j \in 4..Len(s) : s[j] = "}" /\ \A h \in 4..(j - 1) : s[h] # "}"
    ELSE 0

\* re.sub(r'\$\{(.+?)\}', replacer, s)
RECURSIVE re_sub(_, _, _, _)
re_sub(s, vm, nm, fm) ==
    IF s = <<>> THEN s
    ELSE IF match_end(s) > 0
         THEN replacer(SubSeq(s, 3, match_end(s) - 1), vm, nm, fm)
                  \o re_sub(SubSeq(s, match_end(s) + 1, Len(s)), vm, nm, fm)
    ELSE <<Head(s)>> \o re_sub(Tail(s), vm, nm, fm)

\* Expression Resolution of ${variable} in 'value', or in 'name' for display fields
resolve_expression(field, vm, nm, fm) ==
    LET content_key == IF /\ field.type \in ExpressionTypes
                          /\ ~is_true(field.value)
                          /\ is_true(field.name)
                       THEN "name" ELSE "value"
        current_content == field[content_key]
        new_content == re_sub(current_content, vm, nm, fm)
    IN  IF is_true(current_content) /\ contains(current_content, <<"$","{">>)
        THEN IF content_key = "name"
             THEN [field EXCEPT !.name = new_content, !.value = new_content]
             ELSE [field EXCEPT !.value = new_content]
        ELSE field

----------------------------------------------------------------------------
(* Date formatting of _populate_model_values (the server clock is UTC)     *)

Digits == <<"0","1","2","3","4","5","6","7","8","9">>

\* str.isdigit() on one character
is_digit(c) == \E i \in DOMAIN Digits : Digits[i] = c

\* str.isdigit()
isdigit(s) == s # <<>> /\ \A i \in DOMAIN s : is_digit(s[i])

\* int(c) for a digit c
digit_value(c) == (CHOOSE i \in DOMAIN Digits : Digits[i] = c) - 1

\* int(s) for a short string of digits
RECURSIVE int_of(_, _)
int_of(s, acc) ==
    IF s = <<>> THEN acc ELSE int_of(Tail(s), acc * 10 + digit_value(Head(s)))

\* the decimal digits of n, at least `width` of them (strftime pads with zeros)
RECURSIVE zero_padded(_, _)
zero_padded(n, width) ==
    IF n < 10 /\ width <= 1 THEN <<Digits[n + 1]>>
    ELSE Append(zero_padded(n \div 10, width - 1), Digits[(n % 10) + 1])

\* s.split(sep)[0]
RECURSIVE before(_, _)
before(s, sep) ==
    IF s = <<>> \/ Head(s) = sep THEN <<>> ELSE <<Head(s)>> \o before(Tail(s), sep)

\* s.split(sep)
RECURSIVE split(_, _)
split(s, sep) ==
    IF \E i \in DOMAIN s : s[i] = sep
    THEN <<before(s, sep)>> \o split(SubSeq(s, Len(before(s, sep)) + 2, Len(s)), sep)
    ELSE <<s>>

\* the day after which datetime has no year (9999-12-31), in days since 1970
MaxDay == 2932896

MsPerDay == 86400000

\* val / 1000.0 in whole days, by long division over the digits; MaxDay + 1
\* stands for every value datetime.fromtimestamp refuses
RECURSIVE days_of_ms(_, _, _)
days_of_ms(digits, quotient, remainder) ==
    IF digits = <<>> THEN quotient
    ELSE LET cur == remainder * 10 + digit_value(Head(digits))
             q == quotient * 10 + (cur \div MsPerDay)
         IN  days_of_ms(Tail(digits), IF q > MaxDay THEN MaxDay + 1 ELSE q, cur % MsPerDay)

\* the calendar date of a day number (days since 1970-01-01)
civil_from_days(z) ==
    LET shifted == z + 719468
        era == shifted \div 146097
        doe == shifted - era * 146097
        yoe == (doe - (doe \div 1460) + (doe \div 36524) - (doe \div 146096)) \div 365
        doy == doe - (365 * yoe + (yoe \div 4) - (yoe \div 100))
        mp == (5 * doy + 2) \div 153
        d == doy - ((153 * mp + 2) \div 5) + 1
        m == IF mp < 10 THEN mp + 3 ELSE mp - 9
        y == yoe + era * 400 + (IF m <= 2 THEN 1 ELSE 0)
    IN  [year |-> y, month |-> m, day |-> d]

\* dt.strftime("%Y-%m-%d")
strftime(dt) ==
    zero_padded(dt.year, 4) \o <<"-">> \o zero_padded(dt.month, 2) \o <<"-">>
        \o zero_padded(dt.day, 2)

is_leap(y) == (y % 4 = 0 /\ y % 100 # 0) \/ y % 400 = 0

days_in_month(y, m) ==
    IF m = 2 THEN (IF is_leap(y) THEN 29 ELSE 28)
    ELSE IF m \in {4, 6, 9, 11} THEN 30 ELSE 31

\* the text matches %d, %m or %Y of strptime
matches_directive(s, directive) ==
    IF directive = "Y" THEN Len(s) = 4 /\ isdigit(s)
    ELSE /\ Len(s) \in {1, 2}
         /\ isdigit(s)
         /\ int_of(s, 0) >= 1
         /\ int_of(s, 0) <= (IF directive = "d" THEN 31 ELSE 12)

\* the formats tried in turn, as the order of their fields and the separator
DateFormats ==
    <<[order |-> <<"d", "m", "Y">>, sep |-> "-"], [order |-> <<"d", "m", "Y">>, sep |-> "/"],
      [order |-> <<"m", "d", "Y">>, sep |-> "-"], [order |-> <<"m", "d", "Y">>, sep |-> "/"],
      [order |-> <<"Y", "m", "d">>, sep |-> "-"]>>

\* the part of the text that the format reads as directive x
part_of(parts, fmt, x) == parts[CHOOSE i \in 1..3 : fmt.order[i] = x]

\* datetime.strptime(val, fmt) succeeds
strptime_ok(val, fmt) ==
    LET parts == split(val, fmt.sep)
    IN  /\ Len(parts) = 3
        /\ \A i \in 1..3 : matches_directive(parts[i], fmt.order[i])
        /\ int_of(part_of(parts, fmt, "Y"), 0) >= 1
        /\ int_of(part_of(parts, fmt, "d"), 0)
              <= days_in_month(int_of(part_of(parts, fmt, "Y"), 0),
                               int_of(part_of(parts, fmt, "m"), 0))

\* datetime.strptime(val, fmt)
strptime(val, fmt) ==
    LET parts == split(val, fmt.sep)
    IN  [year |-> int_of(part_of(parts, fmt, "Y"), 0),
         month |-> int_of(part_of(parts, fmt, "m"), 0),
         day |-> int_of(part_of(parts, fmt, "d"), 0)]

\* the value after the date step, for a non-empty text value
date_value(val) ==
    LET head == IF contains(val, <<" ">>) THEN before(val, " ") ELSE val
        fits == {i \in DOMAIN DateFormats : strptime_ok(head, DateFormats[i])}
        first == CHOOSE i \in fits : \A j \in fits : i <= j
    IN  IF isdigit(val)
        THEN IF days_of_ms(val, 0, 0) > MaxDay THEN val
             ELSE strftime(civil_from_days(days_of_ms(val, 0, 0)))
        ELSE IF contains(head, <<"T">>) THEN before(head, "T")
        ELSE IF contains(head, <<"-">>) \/ contains(head, <<"/">>)
             THEN IF fits # {} THEN strftime(strptime(head, DateFormats[first]))
                  ELSE IF contains(val, <<" ">>) THEN before(val, " ")
                  ELSE val
        ELSE val

\* Date Formatting: a date field with a value is brought to YYYY-MM-DD
format_date(field) ==
    IF lower(field.type) = txt_date /\ is_true(field.value)
    THEN [field EXCEPT !.value = date_value(@)]
    ELSE field

\* Bound of the ValueMap given to _populate_model_values
MaxPopEntries == 1

\* The items a ValueMap may hold
PopItems ==
    [key : {<<"c","l","i","e","n","t">>}, value : {None, <<>>, <<"A","c","m","e">>, txt_option_1}]
    \cup [key : {<<"s","t","a","t","u","s">>, <<"s","i","t","e","i","d">>, <<"s","i","t","e">>}, value : {<<"A","c","m","e">>}]
    \cup [key : {<<"s","u","r","v","e","y","d","a","t","e">>}, value : {<<"2","2","-","0","1","-","2","0","2","6">>}]

PopDicts == Dicts(PopItems, MaxPopEntries)

\* The date values a form may hold
DateValues ==
    {None, <<"2","0","2","6","-","0","1","-","2","2">>, <<"2","2","-","0","1","-","2","0","2","6">>, <<"2","2","/","0","1","/","2","0","2","6">>, <<"0","1","-","2","2","-","2","0","2","6">>, <<"3","1","-","0","2","-","2","0","2","6">>,
     <<"2","0","2","6","-","0","1","-","2","2"," ","1","0",":","3","0",":","0","0">>, <<"2","0","2","6","-","0","1","-","2","2","T","1","0",":","3","0",":","0","0">>, <<"2","2","-","0","1","-","2","0","2","6","T","1","0",":","3","0",":","0","0">>,
     <<"2","2","/","0","1","/","2","0","2","6"," ","1","0",":","3","0",":","0","0">>, <<"0","1","/","2","2","/","2","0","2","6">>, <<"1","7","6","9","0","4","0","0","0","0","0","0","0">>, <<"A","c","m","e">>}

\* The fields of the form model: fields with options or text, and date fields
PopFields ==
    [id : {None, <<"c","l","i","e","n","t">>, <<"S","t","a","t","u","s">>, <<"s","i","t","e","_","i","d">>, <<"f","o","r","w","a","r","d">>},
     name : {<<"C","l","i","e","n","t">>, <<"$","{","s","t","a","t","u","s","}">>},
     type : {<<"d","r","o","p","d","o","w","n">>, <<"t","e","x","t">>, <<"e","x","p","r","e","s","s","i","o","n">>},
     value : {None, <<"A","c","m","e">>, txt_option_1, <<"$","{","c","l","i","e","n","t","}">>},
     options : {<<>>, options_of(<<<<"A","c","m","e">>>>), options_of(<<txt_option_1>>)}]
    \cup
    [id : {<<"s","u","r","v","e","y","d","a","t","e">>}, name : {<<"C","l","i","e","n","t">>}, type : {<<"d","a","t","e">>, <<"D","a","t","e">>},
     value : DateValues, options : {<<>>}]

\* _populate_model_values(model, values_map) reaches a field of the model
PopulateBegin(field, vm) ==
    /\ pop_pc = "idle"
    /\ pop_field' = field
    /\ pop_map' = vm
    /\ pop_pc' = "options"
    /\ UNCHANGED nonPopVars

PopulateOptions ==
    /\ pop_pc = "options"
    /\ pop_field' = repair_options(pop_field)
    /\ pop_pc' = "backfill"
    /\ UNCHANGED <<pop_map, nonPopVars>>

PopulateBackfill ==
    /\ pop_pc = "backfill"
    /\ pop_field' = backfill(pop_field, normalized_map(pop_map))
    /\ pop_pc' = "lookup"
    /\ UNCHANGED <<pop_map, nonPopVars>>

PopulateLookup ==
    /\ pop_pc = "lookup"
    /\ pop_field' = lookup_value(pop_field, pop_map, normalized_map(pop_map), fuzzy_map(pop_map))
    /\ pop_pc' = "ensure"
    /\ UNCHANGED <<pop_map, nonPopVars>>

PopulateEnsure ==
    /\ pop_pc = "ensure"
    /\ pop_field' = ensure_option(pop_field)
    /\ pop_pc' = "expression"
    /\ UNCHANGED <<pop_map, nonPopVars>>

PopulateExpression ==
    /\ pop_pc = "expression"
    /\ pop_field' = resolve_expression(pop_field, pop_map, normalized_map(pop_map),
                                       fuzzy_map(pop_map))
    /\ pop_pc' = "date"
    /\ UNCHANGED <<pop_map, nonPopVars>>

PopulateDate ==
    /\ pop_pc = "date"
    /\ pop_field' = format_date(pop_field)
    /\ pop_pc' = "done"
    /\ UNCHANGED <<pop_map, nonPopVars>>

\* _populate_model_values returns; the view renders the field
PopulateDone ==
    /\ pop_pc = "done"
    /\ pop_field' = NoField
    /\ pop_map' = EmptyMap
    /\ pop_pc' = "idle"
    /\ UNCHANGED nonPopVars

PopulateInit == TasksIdle /\ MergeIdle /\ PopIdle /\ ClientIdle /\ BatchIdle /\ SemIdle /\ AccessIdle /\ HeadIdle /\ FieldsIdle /\ RowIdle /\ PageIdle /\ StartIdle /\ ResolveIdle /\ PostIdle /\ SubmitIdle

PopulateNext ==
    \/ \E field \in PopFields, vm \in PopDicts : PopulateBegin(field, vm)
    \/ PopulateOptions
    \/ PopulateBackfill
    \/ PopulateLookup
    \/ PopulateEnsure
    \/ PopulateExpression
    \/ PopulateDate
    \/ PopulateDone

SpecPopulate == PopulateInit /\ [][PopulateNext]_vars

\* C7: when _populate_model_values has finished, every field of type
\* dropdown, select or radio-buttons that has a non-empty value has that
\* value, case-folded, among the case-folded ids or names of its options.
C7_ValueAmongOptions ==
    (pop_pc = "done" /\ pop_field.type \in DropdownTypes /\ non_empty(pop_field.value))
        => value_in_options(pop_field)

\* C15: the date step of _populate_model_values is idempotent: for every
\* supported input (milliseconds since the epoch, a date in one of the five
\* formats, with or without a trailing time part) the value the step has
\* produced is left as it is when the step is applied to it again.
C15_DateStepIdempotent ==
    pop_pc = "done" => format_date(pop_field) = pop_field

\* The date step is idempotent on every date value that has no "T" before
\* which another format than %Y-%m-%d stands
DateStepIdempotentWithoutT ==
    \A v \in DateValues \ {None} :
        (contains(v, <<"T">>) => strptime_ok(before(v, "T"), DateFormats[5]))
            => date_value(date_value(v)) = date_value(v)

\* the lookup step keeps a non-empty, non-generic value non-empty and non-generic
KeepsRealValue ==
    (pop_pc = "lookup" /\ non_empty(pop_field.value) /\ ~is_generic(pop_field.value))
        => (non_empty(pop_field'.value) /\ ~is_generic(pop_field'.value))

\* C8: a field that holds a non-empty, non-generic value before the exact /
\* case-insensitive / fuzzy lookup step never has it replaced by an empty
\* value (None or blank) or by a generic 'Option 1' placeholder of the ValueMap.
C8_RealValueNotDegraded == [][KeepsRealValue]_vars

----------------------------------------------------------------------------
(* The remote process client: every function under every engine outcome    *)

\* What one HTTP request to the engine comes to: a response with a status, or
\* an exception of the requests library (both are RequestException)
Resp(status) == [exc |-> "none", status |-> status, body |-> "json"]

Exc(name) == [exc |-> name, status |-> 0, body |-> "none"]

\* a page of the historic-process-instances query: a JSON body with a
\* non-empty "data" list, with an empty one, an error object of the engine, or
\* a body that is not JSON (an error page of a proxy)
Page(status, body) == [exc |-> "none", status |-> status, body |-> body]

EngineOutcomes ==
    {Resp(200), Resp(204), Resp(404), Resp(500), Exc("Timeout"), Exc("ConnectionError")}

\* the request raised instead of giving a response
is_exc(o) == o.exc # "none"

\* Response.raise_for_status() raises HTTPError
http_error(o) == o.status >= 400 /\ o.status < 600

\* the truth value of a Response object is Response.ok
response_ok(o) == ~is_exc(o) /\ ~http_error(o)

\* a function returned v after meeting the outcomes met
Returned(v, met) == [raised |-> "none", value |-> v, met |-> met]

\* a function raised e to its caller after meeting the outcomes met
Raised(e, met) == [raised |-> e, value |-> "none", met |-> met]

\* _fetch_task_form, _fetch_historic_task_form, _fetch_process_definition_details
\* and _fetch_start_form: 404 is absence, RequestException is caught
_fetch_task_form(o) ==
    IF is_exc(o) THEN Returned("None", <<o>>)
    ELSE IF o.status = 404 THEN Returned("None", <<o>>)
    ELSE IF http_error(o) THEN Returned("None", <<o>>)
    ELSE Returned("json", <<o>>)

\* _submit_task_form: a 404 of process-api is retried on form-api
_submit_task_form(o1, o2) ==
    IF is_exc(o1) THEN Returned("(False, message)", <<o1>>)
    ELSE IF o1.status = 404
         THEN IF is_exc(o2) \/ http_error(o2)
              THEN Returned("(False, message)", <<o1, o2>>)
              ELSE Returned("(True, '')", <<o1, o2>>)
    ELSE IF http_error(o1) THEN Returned("(False, message)", <<o1>>)
    ELSE Returned("(True, '')", <<o1>>)

\* _claim_task: any status but 200 is a failure
_claim_task(o) ==
    IF is_exc(o) THEN Returned("(False, message)", <<o>>)
    ELSE IF o.status # 200 THEN Returned("(False, message)", <<o>>)
    ELSE Returned("(True, '')", <<o>>)

\* _upload_content_item: `except Exception`
_upload_content_item(o) ==
    IF is_exc(o) \/ http_error(o) THEN Returned("(False, message)", <<o>>)
    ELSE Returned("(True, '')", <<o>>)

\* _fetch_task_variables_api, _fetch_process_variables_api: a dict, empty
\* unless the status is 200
_fetch_task_variables_api(o) ==
    IF is_exc(o) THEN Returned("{}", <<o>>)
    ELSE IF o.status = 200 THEN Returned("values", <<o>>)
    ELSE Returned("{}", <<o>>)

\* start_process_instance (bulk upload): `except Exception`
start_process_instance(o) ==
    IF is_exc(o) \/ http_error(o) THEN Returned("(False, message)", <<o>>)
    ELSE Returned("(True, 'OK')", <<o>>)

\* delete_runtime, delete_history: the Response, or None on RequestException
delete_runtime(o) ==
    IF is_exc(o) THEN Returned("None", <<o>>) ELSE Returned("Response", <<o>>)

\* delete_process_instance: runtime delete, then history delete
delete_process_instance(r, h) ==
    IF response_ok(r) /\ r.status \in {200, 204}
    THEN Returned("(True, DELETED_RUNTIME)", <<r>>)
    ELSE IF response_ok(r) /\ r.status # 404
    THEN Returned("(False, RUNTIME_ERROR)", <<r>>)
    ELSE IF response_ok(h) /\ h.status \in {200, 204}
    THEN Returned("(True, DELETED_HISTORY)", <<r, h>>)
    ELSE IF response_ok(h) /\ h.status = 404
    THEN Returned("(False, NOT_FOUND)", <<r, h>>)
    ELSE IF response_ok(h)
    THEN Returned("(False, HISTORY_ERROR)", <<r, h>>)
    ELSE Returned("(False, CONNECTION_ERROR)", <<r, h>>)

\* fetch_form_model (bulk upload): ValueError without FORM_DEFINITION_ID; a
\* RequestException is logged and raised again
fetch_form_model(form_definition_id_set, o) ==
    IF ~form_definition_id_set THEN Raised("ValueError", <<>>)
    ELSE IF is_exc(o) THEN Raised(o.exc, <<o>>)
    ELSE IF http_error(o) THEN Raised("HTTPError", <<o>>)
    ELSE Returned("json", <<o>>)

\* the pages of data the engine may hold
MaxPages == 2

PageOutcomes ==
    {Page(200, "data"), Page(200, "empty"), Page(500, "error_json"), Page(502, "html"),
     Exc("Timeout"), Exc("ConnectionError")}

\* the loop of fetch_instance_ids goes on after this page
more_pages(p) == ~is_exc(p) /\ p.body = "data"

\* fetch_instance_ids (export): no try/except around requests.post or r.json()
RECURSIVE fetch_instance_ids(_, _, _)
fetch_instance_ids(pages, ids, met) ==
    LET p == Head(pages)
    IN  IF is_exc(p) THEN Raised(p.exc, Append(met, p))
        ELSE IF p.body = "html" THEN Raised("JSONDecodeError", Append(met, p))
        ELSE IF p.body = "data" THEN fetch_instance_ids(Tail(pages), ids + 1, Append(met, p))
        ELSE Returned(IF ids = 0 THEN "[]" ELSE "ids", Append(met, p))

\* the answers the engine gives until the loop ends: data pages, then one
\* page that ends it
PageSeqs ==
    {ps \in UNION {[1..m -> PageOutcomes] : m \in 1..(MaxPages + 1)} :
        \A i \in DOMAIN ps : more_pages(ps[i]) <=> i < Len(ps)}

\* _submit_start_form: the start request, then the fixup requests whose
\* exceptions are swallowed
_submit_start_form(user_id_given, o_start, o_fix) ==
    IF is_exc(o_start) THEN Returned("(False, message, None)", <<o_start>>)
    ELSE IF o_start.status >= 400 THEN Returned("(False, message, None)", <<o_start>>)
    ELSE IF user_id_given THEN Returned("(True, '', pid)", <<o_start, o_fix>>)
    ELSE Returned("(True, '', pid)", <<o_start>>)

\* the outcomes used for the fallback chain of _fetch_form_model_layout
LayoutOutcomes == {Resp(200), Resp(404), Exc("Timeout")}

\* the three model paths are tried in turn until one answers 200
RECURSIVE fetch_model_paths(_, _)
fetch_model_paths(models, met) ==
    IF models = <<>> THEN Returned("None", met)
    ELSE IF is_exc(Head(models)) THEN Returned("None", Append(met, Head(models)))
    ELSE IF Head(models).status = 200 THEN Returned("json", Append(met, Head(models)))
    ELSE fetch_model_paths(Tail(models), Append(met, Head(models)))

\* _fetch_form_model_layout: the form definition id is looked up through the
\* task (process-api, then form-api), then the model is fetched; the whole
\* body is inside `try ... except Exception`
_fetch_form_model_layout(form_def_id_given, has_form_key, o_task, o_resolve, o_form_task, models) ==
    IF form_def_id_given THEN fetch_model_paths(models, <<>>)
    ELSE IF is_exc(o_task) THEN Returned("None", <<o_task>>)
    ELSE IF o_task.status = 200 /\ has_form_key
    THEN IF is_exc(o_resolve) THEN Returned("None", <<o_task, o_resolve>>)
         ELSE IF o_resolve.status = 200
         THEN fetch_model_paths(models, <<o_task, o_resolve>>)
         ELSE IF is_exc(o_form_task) THEN Returned("None", <<o_task, o_resolve, o_form_task>>)
         ELSE IF o_form_task.status = 200
         THEN fetch_model_paths(models, <<o_task, o_resolve, o_form_task>>)
         ELSE Returned("None", <<o_task, o_resolve, o_form_task>>)
    ELSE IF is_exc(o_form_task) THEN Returned("None", <<o_task, o_form_task>>)
    ELSE IF o_form_task.status = 200
    THEN fetch_model_paths(models, <<o_task, o_form_task>>)
    ELSE Returned("None", <<o_task, o_form_task>>)

\* the record of a finished call
call(fn, res) == [fn |-> fn, met |-> res.met, raised |-> res.raised, value |-> res.value]

FetchTaskForm(o) ==
    /\ client = NoClientCall
    /\ client' = call("_fetch_task_form",
                    _fetch_task_form(o))
    /\ UNCHANGED nonClientVars

FetchHistoricTaskForm(o) ==
    /\ client = NoClientCall
    /\ client' = call("_fetch_historic_task_form",
                    _fetch_task_form(o))
    /\ UNCHANGED nonClientVars

SubmitTaskForm(o1, o2) ==
    /\ client = NoClientCall
    /\ client' = call("_submit_task_form",
                    _submit_task_form(o1, o2))
    /\ UNCHANGED nonClientVars

ClaimTask(o) ==
    /\ client = NoClientCall
    /\ client' = call("_claim_task",
                    _claim_task(o))
    /\ UNCHANGED nonClientVars

UploadContentItem(o) ==
    /\ client = NoClientCall
    /\ client' = call("_upload_content_item",
                    _upload_content_item(o))
    /\ UNCHANGED nonClientVars

FetchTaskVariablesApi(o) ==
    /\ client = NoClientCall
    /\ client' = call("_fetch_task_variables_api",
                    _fetch_task_variables_api(o))
    /\ UNCHANGED nonClientVars

FetchProcessVariablesApi(o) ==
    /\ client = NoClientCall
    /\ client' = call("_fetch_process_variables_api",
                    _fetch_task_variables_api(o))
    /\ UNCHANGED nonClientVars

FetchFormModelLayout(given, key, o_task, o_resolve, o_form_task, models) ==
    /\ client = NoClientCall
    /\ client' = call("_fetch_form_model_layout",
                    _fetch_form_model_layout(given, key, o_task, o_resolve, o_form_task, models))
    /\ UNCHANGED nonClientVars

SubmitStartForm(user_id_given, o_start, o_fix) ==
    /\ client = NoClientCall
    /\ client' = call("_submit_start_form",
                    _submit_start_form(user_id_given, o_start, o_fix))
    /\ UNCHANGED nonClientVars

StartProcessInstance(o) ==
    /\ client = NoClientCall
    /\ client' = call("start_process_instance",
                    start_process_instance(o))
    /\ UNCHANGED nonClientVars

DeleteRuntime(o) ==
    /\ client = NoClientCall
    /\ client' = call("delete_runtime",
                    delete_runtime(o))
    /\ UNCHANGED nonClientVars

DeleteHistory(o) ==
    /\ client = NoClientCall
    /\ client' = call("delete_history",
                    delete_runtime(o))
    /\ UNCHANGED nonClientVars

DeleteProcessInstance(r, h) ==
    /\ client = NoClientCall
    /\ client' = call("delete_process_instance",
                    delete_process_instance(r, h))
    /\ UNCHANGED nonClientVars

FetchFormModel(form_definition_id_set, o) ==
    /\ client = NoClientCall
    /\ client' = call("fetch_form_model",
                    fetch_form_model(form_definition_id_set, o))
    /\ UNCHANGED nonClientVars

FetchInstanceIds(pages) ==
    /\ client = NoClientCall
    /\ client' = call("fetch_instance_ids",
                    fetch_instance_ids(pages, 0, <<>>))
    /\ UNCHANGED nonClientVars

\* the caller goes on with the result
ClientDone ==
    /\ client # NoClientCall
    /\ client' = NoClientCall
    /\ UNCHANGED nonClientVars

ClientInit == TasksIdle /\ MergeIdle /\ PopIdle /\ ClientIdle /\ BatchIdle /\ SemIdle /\ AccessIdle /\ HeadIdle /\ FieldsIdle /\ RowIdle /\ PageIdle /\ StartIdle /\ ResolveIdle /\ PostIdle /\ SubmitIdle

ClientNext ==
    \/ \E o \in EngineOutcomes : FetchTaskForm(o)
    \/ \E o \in EngineOutcomes : FetchHistoricTaskForm(o)
    \/ \E o1, o2 \in EngineOutcomes : SubmitTaskForm(o1, o2)
    \/ \E o \in EngineOutcomes : ClaimTask(o)
    \/ \E o \in EngineOutcomes : UploadContentItem(o)
    \/ \E o \in EngineOutcomes : FetchTaskVariablesApi(o)
    \/ \E o \in EngineOutcomes : FetchProcessVariablesApi(o)
    \/ \E given, key \in BOOLEAN, o_task, o_resolve, o_form_task \in LayoutOutcomes,
          models \in [1..3 -> LayoutOutcomes] :
          FetchFormModelLayout(given, key, o_task, o_resolve, o_form_task, models)
    \/ \E u \in BOOLEAN, o_start, o_fix \in EngineOutcomes : SubmitStartForm(u, o_start, o_fix)
    \/ \E o \in EngineOutcomes : StartProcessInstance(o)
    \/ \E o \in EngineOutcomes : DeleteRuntime(o)
    \/ \E o \in EngineOutcomes : DeleteHistory(o)
    \/ \E r, h \in EngineOutcomes : DeleteProcessInstance(r, h)
    \/ \E s \in BOOLEAN, o \in EngineOutcomes : FetchFormModel(s, o)
    \/ \E ps \in PageSeqs : FetchInstanceIds(ps)
    \/ ClientDone

SpecClient == ClientInit /\ [][ClientNext]_vars

\* an engine outcome that is a failure: a non-2xx status, a timeout or a
\* connection error
is_failure(o) == is_exc(o) \/ o.status < 200 \/ o.status >= 300

\* the failure values of the client
FailureValues ==
    {"(False, message)", "(False, message, None)", "None", "[]", "{}",
     "(False, RUNTIME_ERROR)", "(False, NOT_FOUND)", "(False, HISTORY_ERROR)",
     "(False, CONNECTION_ERROR)"}

\* C9: every call of the remote process client returns a result to its
\* caller for every engine outcome: whatever the engine answered (a non-2xx
\* status, a timeout, a connection error), the call is never left by an
\* exception.
C9_ClientNeverRaises ==
    (client.fn # "none" /\ client.met # <<>>) => client.raised = "none"

\* The task and form calls of the client turn a failure of their request
\* into a failure value
TaskCallsReturnFailureValues ==
    (/\ client.fn \in {"_fetch_task_form", "_fetch_historic_task_form", "_submit_task_form",
                       "_claim_task", "_upload_content_item", "_fetch_task_variables_api",
                       "_fetch_process_variables_api", "start_process_instance",
                       "delete_process_instance"}
     /\ is_failure(client.met[Len(client.met)]))
        => (client.raised = "none" /\ client.value \in FailureValues)

----------------------------------------------------------------------------
(* The batch views: bulk_delete_execute and bulk_start_view                *)

\* Bound: the items of one batch
MaxRows == 3

\* a row of the JSON body of bulk_start_view: an object, or another JSON value
RowKinds == {"dict", "str"}

RowSeqs == UNION {[1..n -> RowKinds] : n \in 0..MaxRows}

\* a JSON error response of a batch view
batch_error(status) ==
    [status |-> status, kind |-> "error", total |-> 0, succeeded |-> 0, failed |-> 0]

\* the JSON summary of a batch view
batch_summary(total, succeeded, failed) ==
    [status |-> 200, kind |-> "summary", total |-> total, succeeded |-> succeeded,
     failed |-> failed]

\* the futures that have a result or an exception
done_futures(b) == {i \in DOMAIN b.fut : b.fut[i] \in {"ok", "failed", "raised"}}

\* the workers inside `with semaphore`
running(b) == {i \in DOMAIN b.fut : b.fut[i] = "running"}

\* bulk_delete_execute: the checks of the request, then `total = len(df)`
BulkDeleteExecute(request, n) ==
    /\ batch.pc = "idle"
    /\ batch' = IF request # "ok"
                THEN [batch EXCEPT !.view = "bulk_delete_execute", !.pc = "responded",
                                   !.resp = batch_error(400)]
                ELSE [batch EXCEPT !.view = "bulk_delete_execute", !.pc = "loop",
                                   !.rows = [i \in 1..n |-> "id"]]
    /\ UNCHANGED nonBatchVars

\* one turn of `for _, row in df.iterrows()`: delete_process_instance inside
\* try/except, then the counters
BulkDeleteItem(r, h) ==
    LET i == Cardinality(batch.seen) + 1
        res == delete_process_instance(r, h)
        ok == res.value \in {"(True, DELETED_RUNTIME)", "(True, DELETED_HISTORY)"}
    IN  /\ batch.view = "bulk_delete_execute"
        /\ batch.pc = "loop"
        /\ i <= Len(batch.rows)
        /\ batch' = [batch EXCEPT !.seen = @ \cup {i},
                                  !.success = IF ok THEN @ \cup {i} ELSE @,
                                  !.failed = IF ok THEN @ ELSE @ \cup {i}]
        /\ UNCHANGED nonBatchVars

\* after the loop: {"total", "deleted", "failed", "results"}
BulkDeleteRespond ==
    /\ batch.view = "bulk_delete_execute"
    /\ batch.pc = "loop"
    /\ Cardinality(batch.seen) = Len(batch.rows)
    /\ batch' = [batch EXCEPT !.pc = "responded",
                              !.resp = batch_summary(Len(batch.rows),
                                                     Cardinality(batch.success),
                                                     Cardinality(batch.failed))]
    /\ UNCHANGED nonBatchVars

\* bulk_start_view up to executor.submit(start_process_instance, row) for every row
BulkStartView(method, body_is_json, rows) ==
    /\ batch.pc = "idle"
    /\ batch' = IF method # "POST"
                THEN [batch EXCEPT !.view = "bulk_start_view", !.pc = "responded",
                                   !.resp = batch_error(405)]
                ELSE IF ~body_is_json
                THEN [batch EXCEPT !.view = "bulk_start_view", !.pc = "responded",
                                   !.resp = batch_error(500)]
                ELSE IF rows = <<>>
                THEN [batch EXCEPT !.view = "bulk_start_view", !.pc = "responded",
                                   !.resp = batch_summary(0, 0, 0)]
                ELSE [batch EXCEPT !.view = "bulk_start_view", !.pc = "pool",
                                   !.rows = rows,
                                   !.fut = [i \in DOMAIN rows |-> "queued"]]
    /\ UNCHANGED nonBatchVars

\* a pool thread takes a queued call and enters `with semaphore`
WorkerStart(i) ==
    /\ batch.view = "bulk_start_view"
    /\ batch.pc \in {"pool", "aborted"}
    /\ i \in DOMAIN batch.fut
    /\ batch.fut[i] = "queued"
    /\ Cardinality(running(batch)) < MAX_PARALLEL
    /\ batch' = [batch EXCEPT !.fut[i] = "running"]
    /\ UNCHANGED nonBatchVars

\* start_process_instance ends: `variables.items()` raises for a row that is
\* no object; otherwise the request is made inside try/except
WorkerFinish(i, o) ==
    /\ batch.view = "bulk_start_view"
    /\ i \in DOMAIN batch.fut
    /\ batch.fut[i] = "running"
    /\ batch' = [batch EXCEPT !.fut[i] =
                     IF batch.rows[i] # "dict" THEN "raised"
                     ELSE IF start_process_instance(o).value = "(True, 'OK')" THEN "ok"
                     ELSE "failed"]
    /\ UNCHANGED nonBatchVars

\* one turn of `for future in as_completed(future_to_row)`:
\* `row_data.get("qacajobid", "Unknown")` stands before the inner try
CollectFuture(i) ==
    /\ batch.view = "bulk_start_view"
    /\ batch.pc = "pool"
    /\ i \in done_futures(batch) \ batch.seen
    /\ batch' = IF batch.rows[i] # "dict"
                THEN [batch EXCEPT !.pc = "aborted"]
                ELSE [batch EXCEPT !.seen = @ \cup {i},
                                   !.success = IF batch.fut[i] = "ok" THEN @ \cup {i} ELSE @,
                                   !.failed = IF batch.fut[i] = "ok" THEN @ ELSE @ \cup {i}]
    /\ UNCHANGED nonBatchVars

\* {"started", "failed", "success_log", "fail_log"} after the last future
BulkStartRespond ==
    /\ batch.view = "bulk_start_view"
    /\ batch.pc = "pool"
    /\ batch.seen = DOMAIN batch.rows
    /\ batch' = [batch EXCEPT !.pc = "responded",
                              !.resp = batch_summary(Len(batch.rows),
                                                     Cardinality(batch.success),
                                                     Cardinality(batch.failed))]
    /\ UNCHANGED nonBatchVars

\* the exception leaves the `with ThreadPoolExecutor` block, which waits for
\* the running calls, and reaches the outer `except Exception`: status 500
BulkStartError ==
    /\ batch.view = "bulk_start_view"
    /\ batch.pc = "aborted"
    /\ done_futures(batch) = DOMAIN batch.fut
    /\ batch' = [batch EXCEPT !.pc = "responded", !.resp = batch_error(500)]
    /\ UNCHANGED nonBatchVars

\* the response is sent
BatchDone ==
    /\ batch.pc = "responded"
    /\ batch' = NoBatch
    /\ UNCHANGED nonBatchVars

BatchInit == TasksIdle /\ MergeIdle /\ PopIdle /\ ClientIdle /\ BatchIdle /\ SemIdle /\ AccessIdle /\ HeadIdle /\ FieldsIdle /\ RowIdle /\ PageIdle /\ StartIdle /\ ResolveIdle /\ PostIdle /\ SubmitIdle

BatchNext ==
    \/ \E request \in {"ok", "not_post_or_no_file", "invalid_excel", "missing_column"},
          n \in 0..MaxRows : BulkDeleteExecute(request, n)
    \/ \E r, h \in EngineOutcomes : BulkDeleteItem(r, h)
    \/ BulkDeleteRespond
    \/ \E method \in {"GET", "POST"}, body_is_json \in BOOLEAN, rows \in RowSeqs :
          BulkStartView(method, body_is_json, rows)
    \/ \E i \in 1..MaxRows : WorkerStart(i)
    \/ \E i \in 1..MaxRows, o \in EngineOutcomes : WorkerFinish(i, o)
    \/ \E i \in 1..MaxRows : CollectFuture(i)
    \/ BulkStartRespond
    \/ BulkStartError
    \/ BatchDone

SpecBatch == BatchInit /\ [][BatchNext]_vars

\* the batch has n items and the view has answered
answered(view) ==
    batch.view = view /\ batch.pc = "responded" /\ batch.rows # <<>>

\* every item has exactly one recorded outcome and the counts add up
one_outcome_each ==
    /\ batch.resp.kind = "summary"
    /\ batch.resp.total = Len(batch.rows)
    /\ batch.resp.succeeded + batch.resp.failed = Len(batch.rows)
    /\ batch.seen = DOMAIN batch.rows
    /\ batch.success \cup batch.failed = DOMAIN batch.rows
    /\ batch.success \cap batch.failed = {}

\* C10: for every batch of n items and every pattern of per-item failures,
\* bulk_delete_execute and bulk_start_view process all n items, record exactly
\* one outcome per item and return a summary whose success count plus failure
\* count is n; a failing item never aborts the items after it.
C10_BatchOneOutcomePerItem ==
    (answered("bulk_delete_execute") \/ answered("bulk_start_view")) => one_outcome_each

\* bulk_delete_execute alone keeps the property of C10
BulkDeleteOneOutcomePerItem ==
    answered("bulk_delete_execute") => one_outcome_each

----------------------------------------------------------------------------
(* Concurrent bulk_start_view requests and the module-level semaphore      *)

\* the bulk-start requests the server process handles at the same time
Requests == {"r1", "r2"}

\* Mutant of can_acquire: acquire never blocks
can_acquire_always(value) ==
    TRUE

\* Semaphore.acquire() goes on only while the counter is positive
can_acquire(value) ==
    value > 0

\* Semaphore.acquire(): the counter is decremented
acquire(value) ==
    value - 1

\* Semaphore.release(), called by `with semaphore` on every way out of the block
release(value) ==
    value + 1

\* the pool threads of a request that run a call
active(s) ==
    s.waiting + s.holding + s.http

\* the sum of a count over all requests
RECURSIVE total(_, _)
total(f, rs) ==
    IF rs = {} THEN 0
    ELSE LET r == CHOOSE x \in rs : TRUE
         IN  (CASE f = "waiting" -> starts[r].waiting
                [] f = "holding" -> starts[r].holding
                [] f = "http"    -> starts[r].http) + total(f, rs \ {r})

\* bulk_start_view with n rows: executor.submit(start_process_instance, row)
\* for every row
SemBulkStartView(r, n) ==
    /\ starts[r].pc = "idle"
    /\ starts' = [starts EXCEPT ![r] = [NoStart EXCEPT !.pc = "pool", !.queued = n]]
    /\ UNCHANGED semaphore
    /\ UNCHANGED nonSemVars

\* one of the max_workers threads of the request's pool takes a queued call
\* and reaches `with semaphore`
SemWorkerTake(r) ==
    /\ starts[r].queued > 0
    /\ active(starts[r]) < MAX_PARALLEL
    /\ starts' = [starts EXCEPT ![r].queued = @ - 1, ![r].waiting = @ + 1]
    /\ UNCHANGED semaphore
    /\ UNCHANGED nonSemVars

\* `with semaphore`: __enter__ acquires a permit
SemAcquire(r) ==
    /\ starts[r].waiting > 0
    /\ can_acquire(semaphore)
    /\ semaphore' = acquire(semaphore)
    /\ starts' = [starts EXCEPT ![r].waiting = @ - 1, ![r].holding = @ + 1]
    /\ UNCHANGED nonSemVars

\* the payload is built; `variables.items()` raises for a row that is no
\* object, and the exception leaves the with block, which releases
SemPayloadRaises(r) ==
    /\ starts[r].holding > 0
    /\ semaphore' = release(semaphore)
    /\ starts' = [starts EXCEPT ![r].holding = @ - 1, ![r].done = @ + 1]
    /\ UNCHANGED nonSemVars

\* requests.post(url, json=payload, ..., timeout=10) is under way
SemPost(r) ==
    /\ starts[r].holding > 0
    /\ starts' = [starts EXCEPT ![r].holding = @ - 1, ![r].http = @ + 1]
    /\ UNCHANGED semaphore
    /\ UNCHANGED nonSemVars

\* the request ends with outcome o: `return True, "OK"` or, from `except
\* Exception`, `return False, err_msg`; either return leaves the with block
SemFinish(r, o) ==
    /\ starts[r].http > 0
    /\ start_process_instance(o).raised = "none"
    /\ semaphore' = release(semaphore)
    /\ starts' = [starts EXCEPT ![r].http = @ - 1, ![r].done = @ + 1]
    /\ UNCHANGED nonSemVars

\* every future is done: the ThreadPoolExecutor block is left and the view answers
SemRespond(r) ==
    /\ starts[r].pc = "pool"
    /\ starts[r].queued = 0
    /\ active(starts[r]) = 0
    /\ starts' = [starts EXCEPT ![r] = NoStart]
    /\ UNCHANGED semaphore
    /\ UNCHANGED nonSemVars

SemInit ==
    /\ TasksIdle /\ MergeIdle /\ PopIdle /\ ClientIdle /\ BatchIdle /\ AccessIdle /\ HeadIdle
    /\ FieldsIdle /\ RowIdle /\ PageIdle /\ StartIdle /\ ResolveIdle /\ PostIdle /\ SubmitIdle
    /\ semaphore = MAX_PARALLEL
    /\ starts = [r \in Requests |-> NoStart]

SemNext ==
    \/ \E r \in Requests, n \in 1..MaxRows : SemBulkStartView(r, n)
    \/ \E r \in Requests : SemWorkerTake(r)
    \/ \E r \in Requests : SemAcquire(r)
    \/ \E r \in Requests : SemPayloadRaises(r)
    \/ \E r \in Requests : SemPost(r)
    \/ \E r \in Requests, o \in EngineOutcomes : SemFinish(r, o)
    \/ \E r \in Requests : SemRespond(r)

SpecSem == SemInit /\ [][SemNext]_vars

\* C11: counting all bulk-start requests that run at the same time, at most
\* MAX_PARALLEL start_process_instance calls are inside their HTTP call to the
\* engine, and no permit is leaked: every permit is free or held by a call
\* that is inside the with block, so that all permits are free again when no
\* call is inside it.
C11_AtMostMaxParallelNoLeak ==
    /\ total("http", DOMAIN starts) <= MAX_PARALLEL
    /\ semaphore >= 0
    /\ semaphore + total("holding", DOMAIN starts) + total("http", DOMAIN starts)
         = MAX_PARALLEL

\* MAX_PARALLEL calls of two requests are inside their HTTP call, and a
\* further call waits for a permit
C11_Witness ==
    /\ DOMAIN starts = Requests
    /\ total("http", Requests) = MAX_PARALLEL
    /\ \A r \in Requests : starts[r].http > 0
    /\ total("waiting", Requests) > 0

----------------------------------------------------------------------------
(* Access control: role_required and login_required                        *)

\* the users of tests.py, a design coordinator, a circle coordinator, a
\* superuser, and a request without a session
AccessUsers == {"anonymous", "viewer1", "ch1", "admin1", "dc1", "cc1", "root"}

\* user.is_authenticated
is_authenticated(user) ==
    user # "anonymous"

\* user.is_superuser
is_superuser(user) ==
    user = "root"

\* user.groups: the names of the user's groups
user_groups(user) ==
    CASE user = "viewer1" -> {"viewer"}
      [] user = "ch1"     -> {"circleHead"}
      [] user = "admin1"  -> {"admin"}
      [] user = "dc1"     -> {"designcoordinator"}
      [] user = "cc1"     -> {"Circlecoordinator"}
      [] OTHER            -> {}

\* the URL of each view wrapped by role_required
RoleViews ==
    {"/upload/", "/upload/validate/", "/upload/start/", "/delete/", "/delete/execute/",
     "/export/", "/process-data/"}

\* the roles given to @role_required(...) above each view
roles_list(view) ==
    CASE view \in {"/upload/", "/upload/validate/"}
              -> {"Circlecoordinator", "Surveycoordinator", "designcoordinator"}
      [] view = "/upload/start/"
              -> {"admin", "Circlecoordinator", "Surveycoordinator"}
      [] view \in {"/delete/", "/delete/execute/", "/export/", "/process-data/"}
              -> {"designcoordinator"}

\* the status the body of each view gives to a GET
view_func(view) ==
    CASE view \in {"/upload/", "/delete/", "/export/", "/process-data/"}
              -> [status |-> 200, body |-> "page"]
      [] view \in {"/upload/validate/", "/upload/start/"}
              -> [status |-> 405, body |-> "Method not allowed"]
      [] view = "/delete/execute/"
              -> [status |-> 400, body |-> "Excel file is required"]

\* the request headers that role_required reads
AccessHeaders ==
    [x_requested_with : {"", "XMLHttpRequest"}, accept : {"text/html", "application/json"}]

\* is_ajax of role_required.wrapper
is_ajax(headers) ==
    headers.x_requested_with = "XMLHttpRequest" \/ headers.accept = "application/json"

\* Mutant of _user_has_any_role: every authenticated user has the role
_user_has_any_role_authenticated(user, roles) ==
    is_authenticated(user)

\* _user_has_any_role(user, roles)
_user_has_any_role(user, roles) ==
    IF ~is_authenticated(user) THEN FALSE
    ELSE IF is_superuser(user) THEN TRUE
    ELSE user_groups(user) \cap roles # {}

\* role_required(*roles)(view_func)(request): what the wrapper returns
role_required(view, user, ajax) ==
    LET r == [view |-> view, user |-> user, is_ajax |-> ajax, status |-> 0,
              body |-> "none", reached |-> FALSE]
    IN  IF ~is_authenticated(user)
        THEN IF ajax
             THEN [r EXCEPT !.status = 401, !.body = "Authentication required"]
             ELSE [r EXCEPT !.status = 302, !.body = "/login/?next"]
        ELSE IF ~_user_has_any_role(user, roles_list(view))
        THEN IF ajax
             THEN [r EXCEPT !.status = 403, !.body = "Forbidden: You do not have permission"]
             ELSE [r EXCEPT !.status = 403, !.body = "Forbidden"]
        ELSE [r EXCEPT !.status = view_func(view).status, !.body = view_func(view).body,
                       !.reached = TRUE]

\* GET on a view wrapped by role_required
RoleRequiredView(view, user, headers) ==
    /\ access = NoAccess
    /\ access' = role_required(view, user, is_ajax(headers))
    /\ UNCHANGED nonAccessVars

\* GET / : dashboard_view behind login_required; the summaries fall back to
\* zero counts when the database cannot be read
DashboardView(user, headers) ==
    /\ access = NoAccess
    /\ access' = IF is_authenticated(user)
                 THEN [view |-> "/", user |-> user, is_ajax |-> is_ajax(headers),
                       status |-> 200, body |-> "page", reached |-> TRUE]
                 ELSE [view |-> "/", user |-> user, is_ajax |-> is_ajax(headers),
                       status |-> 302, body |-> "/login/?next", reached |-> FALSE]
    /\ UNCHANGED nonAccessVars

\* the response is sent
AccessDone ==
    /\ access # NoAccess
    /\ access' = NoAccess
    /\ UNCHANGED nonAccessVars

AccessInit ==
    TasksIdle /\ MergeIdle /\ PopIdle /\ ClientIdle /\ BatchIdle /\ SemIdle /\ AccessIdle /\ HeadIdle /\ FieldsIdle /\ RowIdle /\ PageIdle /\ StartIdle /\ ResolveIdle /\ PostIdle /\ SubmitIdle

AccessNext ==
    \/ \E view \in RoleViews, user \in AccessUsers, headers \in AccessHeaders :
          RoleRequiredView(view, user, headers)
    \/ \E user \in AccessUsers, headers \in AccessHeaders : DashboardView(user, headers)
    \/ AccessDone

SpecAccess == AccessInit /\ [][AccessNext]_vars

\* C12: access is granted by role as tests.py asserts: every authenticated
\* user gets 200 on GET /; a user of group circleHead gets 200 on GET /upload/;
\* a user of group admin gets 200 on GET /upload/, /delete/ and /export/.
C12_AccessAsTested ==
    /\ (access.view = "/" /\ is_authenticated(access.user)) => access.status = 200
    /\ (access.view = "/upload/" /\ "circleHead" \in user_groups(access.user))
          => access.status = 200
    /\ (access.view \in {"/upload/", "/delete/", "/export/"}
          /\ "admin" \in user_groups(access.user)) => access.status = 200

\* Every authenticated user gets 200 on GET /
DashboardForEveryUser ==
    (access.view = "/" /\ is_authenticated(access.user)) => access.status = 200

----------------------------------------------------------------------------
(* _identify_headlines: text fields that serve as labels become headers    *)

\* Bound: the fields of the list
MaxHeadFields == 2

txt_header == <<"h","e","a","d","e","r">>

txt_boolean == <<"b","o","o","l","e","a","n">>

\* ('header', 'expression', 'formatted-text', 'container')
HeaderTypes == {txt_header, <<"e","x","p","r","e","s","s","i","o","n">>, <<"f","o","r","m","a","t","t","e","d","-","t","e","x","t">>, <<"c","o","n","t","a","i","n","e","r">>}

\* ('text', 'multi-line-text', 'plain-text')
TextTypes == {<<"t","e","x","t">>, <<"m","u","l","t","i","-","l","i","n","e","-","t","e","x","t">>, <<"p","l","a","i","n","-","t","e","x","t">>}

\* the fields a list may hold
HeadFields ==
    [type     : {<<"t","e","x","t">>, <<"T","e","x","t">>, txt_boolean, txt_header},
     name     : {None, <<"T","i","m","e"," ","T","a","k","e","n">>, <<"R","e","m","a","r","k","s">>, <<"R","e","a","s","o","n"," ","f","o","r"," ","N","o","n","-","F","T","R"," ","(","t","i","m","e"," ","t","a","k","e","n",")">>},
     readOnly : BOOLEAN,
     value    : {None, <<"5">>}]

HeadLists == UNION {[1..n -> HeadFields] : n \in 0..MaxHeadFields}

\* the body of `for i in range(len(fields))` for index i: the list after it
identify_headline(fields, i) ==
    LET f      == fields[i]
        f_type == lower(f.type)
        f_name == lower(IF f.name = None THEN <<>> ELSE f.name)
        header == [fields EXCEPT ![i].type = txt_header]
    IN  IF f_type \in HeaderTypes THEN fields
        ELSE IF contains(f_name, <<"r","e","a","s","o","n"," ","f","o","r"," ","n","o","n","-","f","t","r">>) /\ f_type \in TextTypes THEN header
        ELSE IF i < Len(fields) /\ fields[i + 1].type = txt_boolean /\ f_type \in TextTypes
        THEN IF contains(f_name, <<"t","i","m","e"," ","t","a","k","e","n">>) THEN fields
             ELSE IF f.readOnly THEN header
             ELSE IF ~is_true(f.value) THEN header
             ELSE fields
        ELSE fields

\* _identify_headlines(fields) is called on a list of fields
HeadlinesBegin(fields) ==
    /\ headlines.pc = "idle"
    /\ headlines' = IF fields = <<>>
                    THEN [pc |-> "done", given |-> fields, fields |-> fields, i |-> 0]
                    ELSE [pc |-> "loop", given |-> fields, fields |-> fields, i |-> 1]
    /\ UNCHANGED nonHeadVars

\* one turn of the loop
HeadlinesField ==
    /\ headlines.pc = "loop"
    /\ headlines.i <= Len(headlines.fields)
    /\ headlines' = [headlines EXCEPT !.fields = identify_headline(@, headlines.i),
                                      !.i = @ + 1]
    /\ UNCHANGED nonHeadVars

\* the loop ends: the function returns
HeadlinesReturn ==
    /\ headlines.pc = "loop"
    /\ headlines.i > Len(headlines.fields)
    /\ headlines' = [headlines EXCEPT !.pc = "done"]
    /\ UNCHANGED nonHeadVars

\* the caller goes on to render the list
HeadlinesDone ==
    /\ headlines.pc = "done"
    /\ headlines' = NoHeadlines
    /\ UNCHANGED nonHeadVars

HeadInit ==
    /\ TasksIdle /\ MergeIdle /\ PopIdle /\ ClientIdle /\ BatchIdle /\ SemIdle /\ AccessIdle
    /\ HeadIdle /\ FieldsIdle /\ RowIdle /\ PageIdle /\ StartIdle /\ ResolveIdle /\ PostIdle /\ SubmitIdle

HeadNext ==
    \/ \E fields \in HeadLists : HeadlinesBegin(fields)
    \/ HeadlinesField
    \/ HeadlinesReturn
    \/ HeadlinesDone

SpecHeadlines == HeadInit /\ [][HeadNext]_vars

\* C14: a field whose name contains 'time taken' (case-insensitively) keeps
\* its type in _identify_headlines: it is never made a 'header', whatever else
\* its name contains, whatever its value or readOnly flag, and whatever field
\* follows it.
C14_TimeTakenKeepsType ==
    \A k \in DOMAIN headlines.fields :
        (headlines.given[k].name # None
            /\ contains(lower(headlines.given[k].name), <<"t","i","m","e"," ","t","a","k","e","n">>))
        => headlines.fields[k].type = headlines.given[k].type

\* A field named with 'time taken' and without 'reason for non-ftr' keeps its type
TimeTakenAloneKeepsType ==
    \A k \in DOMAIN headlines.fields :
        (headlines.given[k].name # None
            /\ contains(lower(headlines.given[k].name), <<"t","i","m","e"," ","t","a","k","e","n">>)
            /\ ~contains(lower(headlines.given[k].name), <<"r","e","a","s","o","n"," ","f","o","r"," ","n","o","n","-","f","t","r">>))
        => headlines.fields[k].type = headlines.given[k].type

----------------------------------------------------------------------------
(* process_fields over a list of sibling fields                            *)

\* Bound: the fields of one list
MaxSiblings == 2

\* an entry of "options" that is a JSON string where an object is expected
BadOption == [text |-> <<"o","o","p","s">>]

\* isinstance(opt, dict): the entry has .get
is_dict(opt) ==
    "text" \notin DOMAIN opt

\* OPTIONS POPULATION raises: the loop over the options of a "forward" field
\* calls opt.get on an entry that is no object
repair_options_raises(field) ==
    LET fid_lower == IF is_true(field.id) THEN lower(field.id) ELSE <<>>
        fname_lower == IF is_true(field.name) THEN lower(field.name) ELSE <<>>
        known == \E w \in {<<"c","i","r","c","l","e">>, <<"a","c","t","i","v","i","t","y">>, <<"c","l","i","e","n","t">>, <<"a","l","l","o","c","a","t","i","o","n">>} :
                     contains(fid_lower, w)
    IN  /\ field.type \in DropdownTypes
        /\ field.options # <<>>
        /\ \/ contains(fid_lower, <<"f","o","r","w","a","r","d">>)
           \/ contains(fid_lower, <<"o","u","t","c","o","m","e">>)
           \/ contains(fname_lower, <<"f","o","r","w","a","r","d">>)
        /\ \E i \in DOMAIN field.options :
              /\ ~is_dict(field.options[i])
              /\ \A j \in 1..(i - 1) : ~is_generic(field.options[j].name)

\* Ensure Value is in Options raises: the list comprehensions call opt.get on
\* every entry
ensure_option_raises(field) ==
    /\ field.type \in DropdownTypes
    /\ field.options # <<>>
    /\ is_true(field.value)
    /\ \E i \in DOMAIN field.options : ~is_dict(field.options[i])

\* Date Formatting raises: field.get("type", "").lower() on a type that is null
format_date_raises(field) ==
    field.type = None

\* the field when the value lookup of the loop body is over
looked_up(field, vm) ==
    lookup_value(backfill(repair_options(field), normalized_map(vm)), vm,
                 normalized_map(vm), fuzzy_map(vm))

\* an exception leaves one turn of `for field in field_list`
process_field_raises(field, vm) ==
    \/ repair_options_raises(field)
    \/ ensure_option_raises(looked_up(field, vm))
    \/ format_date_raises(field)

\* one turn of `for field in field_list` that raises nothing
process_field(field, vm) ==
    format_date(resolve_expression(ensure_option(looked_up(field, vm)), vm,
                                   normalized_map(vm), fuzzy_map(vm)))

\* the fields a list may hold: a plain text field, a field whose type, id and
\* name are null, a date field with a date that does not exist, dropdowns
\* with a malformed option entry, and a field without type, id and name
\* whose value names a variable that does not exist
SiblingFields ==
    {[id |-> <<"c","l","i","e","n","t">>, name |-> <<"C","l","i","e","n","t">>, type |-> <<"t","e","x","t">>, value |-> None, options |-> <<>>],
     [id |-> None, name |-> None, type |-> None, value |-> None, options |-> <<>>],
     [id |-> <<"s","u","r","v","e","y","d","a","t","e">>, name |-> <<"S","u","r","v","e","y">>, type |-> <<"d","a","t","e">>, value |-> <<"3","1","-","0","2","-","2","0","2","6">>,
      options |-> <<>>],
     [id |-> <<"s","t","a","t","u","s">>, name |-> <<"S","t","a","t","u","s">>, type |-> <<"d","r","o","p","d","o","w","n">>, value |-> <<"O","p","e","n">>,
      options |-> <<BadOption>>],
     [id |-> <<"f","o","r","w","a","r","d">>, name |-> <<"F","o","r","w","a","r","d">>, type |-> <<"d","r","o","p","d","o","w","n">>, value |-> None,
      options |-> <<BadOption>>],
     [id |-> None, name |-> None, type |-> <<>>, value |-> <<"$","{","n","o","k","e","y","}">>, options |-> <<>>]}

SiblingLists == UNION {[1..n -> SiblingFields] : n \in 0..MaxSiblings}

SiblingMaps == {EmptyMap, <<[key |-> <<"c","l","i","e","n","t">>, value |-> <<"A","c","m","e">>]>>}

\* process_fields(field_list) is called by _populate_model_values
ProcessFieldsBegin(field_list, vm) ==
    /\ plist.pc = "idle"
    /\ plist' = [pc |-> "loop", fields |-> field_list, vm |-> vm, reached |-> {}]
    /\ UNCHANGED nonFieldsVars

\* the loop body on the next field; an exception leaves process_fields,
\* _populate_model_values and task_detail_view, none of which catches it
ProcessField ==
    LET i == Cardinality(plist.reached) + 1
    IN  /\ plist.pc = "loop"
        /\ i <= Len(plist.fields)
        /\ plist' = IF process_field_raises(plist.fields[i], plist.vm)
                    THEN [plist EXCEPT !.pc = "raised", !.reached = @ \cup {i}]
                    ELSE [plist EXCEPT !.fields[i] = process_field(@, plist.vm),
                                       !.reached = @ \cup {i}]
        /\ UNCHANGED nonFieldsVars

\* the loop ends
ProcessFieldsReturn ==
    /\ plist.pc = "loop"
    /\ Cardinality(plist.reached) = Len(plist.fields)
    /\ plist' = [plist EXCEPT !.pc = "returned"]
    /\ UNCHANGED nonFieldsVars

\* the request ends: the page is rendered, or the exception becomes a 500
ProcessFieldsDone ==
    /\ plist.pc \in {"returned", "raised"}
    /\ plist' = NoList
    /\ UNCHANGED nonFieldsVars

FieldsInit ==
    /\ TasksIdle /\ MergeIdle /\ PopIdle /\ ClientIdle /\ BatchIdle /\ SemIdle /\ AccessIdle
    /\ HeadIdle /\ FieldsIdle /\ RowIdle /\ PageIdle /\ StartIdle /\ ResolveIdle /\ PostIdle /\ SubmitIdle

FieldsNext ==
    \/ \E l \in SiblingLists, vm \in SiblingMaps : ProcessFieldsBegin(l, vm)
    \/ ProcessField
    \/ ProcessFieldsReturn
    \/ ProcessFieldsDone

SpecFields == FieldsInit /\ [][FieldsNext]_vars

\* C16: in _populate_model_values a failure while one field is processed
\* (missing or null type, id or name, malformed option entry, bad date
\* string, unresolvable key) never keeps the remaining fields of the list
\* from being processed: when the call has ended, the loop has reached every
\* field of the list.
C16_FailureKeepsSiblings ==
    plist.pc \in {"returned", "raised"} => plist.reached = DOMAIN plist.fields

\* A list without a null type and without a malformed option entry is
\* processed to its end: a bad date, a missing type, id or name and an
\* unresolvable key are no failures
CaughtFailuresKeepSiblings ==
    (/\ plist.pc \in {"returned", "raised"}
     /\ \A k \in DOMAIN plist.fields :
           /\ plist.fields[k].type # None
           /\ \A o \in DOMAIN plist.fields[k].options : is_dict(plist.fields[k].options[o]))
        => (plist.pc = "returned" /\ plist.reached = DOMAIN plist.fields)

----------------------------------------------------------------------------
(* a variable row of ACT_HI_VARINST resolved by _load_task_detail          *)

\* b'\x78\x70' (TC_ENDBLOCKDATA, TC_NULL)
Marker == <<120, 112>>

\* the marker stands at position i of the bytes (counted from 1)
marker_at(v_bytes, i) ==
    i + 1 <= Len(v_bytes) /\ SubSeq(v_bytes, i, i + 1) = Marker

\* v_bytes.find(b'\x78\x70'): the index (counted from 0) of the first
\* occurrence, -1 when there is none
find(v_bytes) ==
    IF \E i \in DOMAIN v_bytes : marker_at(v_bytes, i)
    THEN (CHOOSE i \in DOMAIN v_bytes :
              marker_at(v_bytes, i) /\ \A j \in 1..(i - 1) : ~marker_at(v_bytes, j)) - 1
    ELSE -1

\* int.from_bytes(timestamp_bytes, byteorder='big', signed=True): the 64-bit
\* integer as three limbs hi * 2^48 + mid * 2^24 + lo, the sign carried by hi
from_bytes(b) ==
    LET hi == b[1] * 256 + b[2]
    IN  <<IF hi >= 32768 THEN hi - 65536 ELSE hi,
          (b[3] * 256 + b[4]) * 256 + b[5],
          (b[6] * 256 + b[7]) * 256 + b[8]>>

\* x < y on integers in limbs
less(x, y) ==
    \/ x[1] < y[1]
    \/ x[1] = y[1] /\ x[2] < y[2]
    \/ x[1] = y[1] /\ x[2] = y[2] /\ x[3] < y[3]

\* x <= y on integers in limbs
less_or_equal(x, y) ==
    less(x, y) \/ x = y

\* 1000000000000 and 3000000000000 in limbs
LowerTimestamp == <<0, 59604, 10817536>>

UpperTimestamp == <<0, 178813, 15675392>>

\* 1000000000000 <= timestamp <= 3000000000000
plausible_inclusive(timestamp) ==
    less_or_equal(LowerTimestamp, timestamp) /\ less_or_equal(timestamp, UpperTimestamp)

\* 1000000000000 < timestamp < 3000000000000
plausible(timestamp) ==
    less(LowerTimestamp, timestamp) /\ less(timestamp, UpperTimestamp)

\* the bytes of an unsigned integer divided by d (d * 256 fits the integers
\* of the model): <<the bytes of the quotient, the remainder>>
RECURSIVE divide(_, _, _, _)
divide(b, d, quotient, remainder) ==
    IF b = <<>> THEN <<quotient, remainder>>
    ELSE LET cur == remainder * 256 + Head(b)
         IN  divide(Tail(b), d, Append(quotient, cur \div d), cur % d)

\* the value of the bytes of a small unsigned integer
RECURSIVE int_of_bytes(_, _)
int_of_bytes(b, acc) ==
    IF b = <<>> THEN acc ELSE int_of_bytes(Tail(b), acc * 256 + Head(b))

\* datetime.fromtimestamp(timestamp / 1000.0).strftime("%Y-%m-%d") for a
\* plausible timestamp, TIME_ZONE being UTC: the days are the timestamp
\* divided by 86400000 = 1024 * 84375, the quotient of the second division
\* taken digit by digit in base 84375 * 256
timestamp_date(timestamp_bytes) ==
    LET by_1024 == divide(timestamp_bytes, 1024, <<>>, 0)[1]
        days == divide(by_1024, 84375, <<>>, 0)[1]
    IN  strftime(civil_from_days(int_of_bytes(days, 0)))

\* the date of a serializable blob, None when the blob holds none
blob_date(v_bytes) ==
    LET marker_index == find(v_bytes)
    IN  IF marker_index # -1 /\ marker_index + 10 <= Len(v_bytes)
        THEN LET timestamp_bytes == SubSeq(v_bytes, marker_index + 3, marker_index + 10)
             IN  IF plausible(from_bytes(timestamp_bytes))
                 THEN timestamp_date(timestamp_bytes)
                 ELSE None
        ELSE None

\* the value a row resolves to: the date of a date row or of a blob, else
\* text before long before double
row_value(row) ==
    LET dated == IF row.v_type \in {"date", "jodadate"} /\ row.v_long # None
                 THEN IF days_of_ms(row.v_long, 0, 0) > MaxDay THEN row.v_long
                      ELSE strftime(civil_from_days(days_of_ms(row.v_long, 0, 0)))
                 ELSE IF row.v_type = "serializable" /\ row.v_bytes # <<>>
                 THEN blob_date(row.v_bytes)
                 ELSE None
    IN  IF dated # None THEN dated
        ELSE IF row.v_text # None THEN row.v_text
        ELSE IF row.v_long # None THEN row.v_long
        ELSE row.v_double

\* the row is skipped: a serializable row with bytes and no value
row_skipped(row) ==
    row_value(row) = None /\ row.v_type = "serializable" /\ row.v_bytes # <<>>

\* eight-byte timestamps: 999999999999, 1000000000000, 1000000000001,
\* 1700000000000, 2999999999999, 3000000000000, -1, 0 and 2^63 - 1
Timestamps ==
    {<<0, 0, 0, 232, 212, 165, 15, 255>>, <<0, 0, 0, 232, 212, 165, 16, 0>>,
     <<0, 0, 0, 232, 212, 165, 16, 1>>, <<0, 0, 1, 139, 207, 229, 104, 0>>,
     <<0, 0, 2, 186, 125, 239, 47, 255>>, <<0, 0, 2, 186, 125, 239, 48, 0>>,
     <<255, 255, 255, 255, 255, 255, 255, 255>>, <<0, 0, 0, 0, 0, 0, 0, 0>>,
     <<127, 255, 255, 255, 255, 255, 255, 255>>}

\* what may stand before the body of a blob: nothing, the stream magic, one
\* half of a marker, a reversed marker
BlobPrefixes == {<<>>, <<172, 237>>, <<120>>, <<112, 120>>}

\* bodies: a marker and a timestamp, a marker and seven bytes, a timestamp
\* without marker, the second half of a marker and a timestamp, a marker and
\* a timestamp followed by a second marker and timestamp
BlobBodies ==
    {Marker \o t : t \in Timestamps}
        \cup {Marker \o SubSeq(t, 1, 7) : t \in Timestamps}
        \cup Timestamps
        \cup {<<112>> \o t : t \in Timestamps}
        \cup {Marker \o t \o Marker \o <<0, 0, 1, 139, 207, 229, 104, 0>> : t \in Timestamps}
        \cup {<<>>}

Blobs == {p \o b : p \in BlobPrefixes, b \in BlobBodies}

RowTypes == {"serializable", "string", "date"}

\* a row is fetched
FetchRow(v_type, v_text, v_long, v_double, v_bytes) ==
    /\ varrow.pc = "idle"
    /\ varrow' = [NoRow EXCEPT !.pc = "fetched", !.v_type = v_type, !.v_text = v_text,
                               !.v_long = v_long, !.v_double = v_double,
                               !.v_bytes = v_bytes]
    /\ UNCHANGED nonRowVars

\* the body of `for ... in cursor.fetchall()` on a name not yet in
\* variables_dict
ResolveRow ==
    /\ varrow.pc = "fetched"
    /\ varrow' = [varrow EXCEPT !.pc = "resolved",
                                !.listed = ~row_skipped(varrow),
                                !.value = row_value(varrow)]
    /\ UNCHANGED nonRowVars

RowDone ==
    /\ varrow.pc = "resolved"
    /\ varrow' = NoRow
    /\ UNCHANGED nonRowVars

RowInit ==
    /\ TasksIdle /\ MergeIdle /\ PopIdle /\ ClientIdle /\ BatchIdle /\ SemIdle /\ AccessIdle
    /\ HeadIdle /\ FieldsIdle /\ RowIdle /\ PageIdle /\ StartIdle /\ ResolveIdle /\ PostIdle /\ SubmitIdle

RowNext ==
    \/ \E v_type \in RowTypes, v_text \in {None, <<"x">>}, v_long \in {None, <<"1","7","0","0","0","0","0","0","0","0","0","0","0">>},
          v_double \in {None, <<"1",".","5">>}, v_bytes \in Blobs :
            FetchRow(v_type, v_text, v_long, v_double, v_bytes)
    \/ ResolveRow
    \/ RowDone

SpecRow == RowInit /\ [][RowNext]_vars

\* the eight bytes, read as a big-endian signed integer, lie strictly between
\* 1000000000000 and 3000000000000: the sign bit is clear and the bytes
\* stand between the bytes of the two bounds
RECURSIVE bytes_less(_, _)
bytes_less(x, y) ==
    /\ x # <<>>
    /\ \/ Head(x) < Head(y)
       \/ Head(x) = Head(y) /\ bytes_less(Tail(x), Tail(y))

in_window(t) ==
    /\ t[1] < 128
    /\ bytes_less(<<0, 0, 0, 232, 212, 165, 16, 0>>, t)
    /\ bytes_less(t, <<0, 0, 2, 186, 125, 239, 48, 0>>)

\* a serializable row with bytes has been resolved
blob_row_resolved ==
    varrow.pc = "resolved" /\ varrow.v_type = "serializable" /\ varrow.v_bytes # <<>>

\* a marker at position i of the blob has eight bytes after it that lie in
\* the window
marker_in_window(i) ==
    /\ marker_at(varrow.v_bytes, i)
    /\ i + 9 <= Len(varrow.v_bytes)
    /\ in_window(SubSeq(varrow.v_bytes, i + 2, i + 9))

\* the marker at position i is the first of the blob
first_marker(i) ==
    \A j \in 1..(i - 1) : ~marker_at(varrow.v_bytes, j)

\* the row is listed with the date of the eight bytes after position i
dated_by(i) ==
    /\ varrow.listed
    /\ varrow.value = timestamp_date(SubSeq(varrow.v_bytes, i + 2, i + 9))

\* what the row resolves to when its blob gives no date
undated_as_required ==
    IF varrow.v_text = None /\ varrow.v_long = None /\ varrow.v_double = None
    THEN ~varrow.listed
    ELSE /\ varrow.listed
         /\ varrow.value \in {varrow.v_text, varrow.v_long, varrow.v_double} \ {None}

\* C17: a serializable blob yields a date exactly when the FIRST occurrence
\* of the marker 0x78 0x70 has at least 8 bytes after it and those 8 bytes,
\* read as a big-endian signed integer, lie strictly between 1000000000000
\* and 3000000000000; otherwise no date is produced, and a row without text
\* and numeric value is left out of the resolved variables.
C17_BlobDateFromFirstMarker ==
    blob_row_resolved =>
        IF \E i \in DOMAIN varrow.v_bytes : first_marker(i) /\ marker_in_window(i)
        THEN \E i \in DOMAIN varrow.v_bytes :
                 first_marker(i) /\ marker_in_window(i) /\ dated_by(i)
        ELSE undated_as_required

\* a blob with a marker, 1700000000000 after it, and no other value in the
\* row has been resolved to 2023-11-14
C17_Witness ==
    /\ blob_row_resolved
    /\ varrow.v_text = None /\ varrow.v_long = None /\ varrow.v_double = None
    /\ varrow.listed
    /\ varrow.value = <<"2","0","2","3","-","1","1","-","1","4">>

\* C17 as stated: a date exactly when the marker occurs (anywhere) with at
\* least 8 bytes after it that lie in the window
C17_BlobDateFromAnyMarker ==
    blob_row_resolved =>
        IF \E i \in DOMAIN varrow.v_bytes : marker_in_window(i)
        THEN \E i \in DOMAIN varrow.v_bytes : marker_in_window(i) /\ dated_by(i)
        ELSE undated_as_required

----------------------------------------------------------------------------
(* The flat form fields merged into the ValueMap (checked under SpecMerge)  *)

\* the flat-form step took the map from vm to vm2 on the one field f
flat_step_on(f) ==
    /\ merge_pc = "flat"
    /\ f.id # None
    /\ values_map' = merge_flat(values_map, <<f>>)

\* a non-empty value of a date field replaces what the map held; a non-empty
\* value of another field is written only when the id is absent
date_replaces_other_fills(f) ==
    IF lower(f.type) = txt_date
    THEN dict_has(values_map', f.id) /\ dict_get(values_map', f.id) = f.value
    ELSE IF dict_has(values_map, f.id)
    THEN values_map' = values_map
    ELSE dict_has(values_map', f.id) /\ dict_get(values_map', f.id) = f.value

FlatStepNeverMergesGeneric ==
    \A fs \in FlatFields :
        (Len(fs) = 1 /\ flat_step_on(fs[1]) /\ non_empty(fs[1].value)) =>
            IF fs[1].value = txt_option_1
            THEN values_map' = values_map
            ELSE date_replaces_other_fills(fs[1])

\* C20: when the flat form fields are merged into the ValueMap, a non-empty
\* value of a date field always replaces what the map held for the id, a
\* non-empty value of a non-date field is written only when the id is absent,
\* and a value equal to 'Option 1' is never merged, whatever the field's type.
C20_GenericNeverMerged == [][FlatStepNeverMergesGeneric]_vars

FlatStepSkipsGenericDropdown ==
    \A fs \in FlatFields :
        (Len(fs) = 1 /\ flat_step_on(fs[1]) /\ non_empty(fs[1].value)) =>
            IF fs[1].value = txt_option_1 /\ lower(fs[1].type) \in DropdownTypes
            THEN values_map' = values_map
            ELSE date_replaces_other_fills(fs[1])

\* The date and gap-filling rules hold, and 'Option 1' is left out for the
\* fields of type dropdown, select and radio-buttons; for the other types it
\* is merged as any value
GenericDropdownNeverMerged == [][FlatStepSkipsGenericDropdown]_vars

----------------------------------------------------------------------------
(* The historic form instances merged into the ValueMap (under SpecMerge)   *)

\* the historic step has just merged a listing whose form instances were all
\* obtained: each has an id and values, in the list entry or by the detail
\* request
historic_merged ==
    /\ merge_pc = "sql"
    /\ hist_listing.outcome = "200"
    /\ \A i \in DOMAIN hist_listing.data :
          /\ is_set(hist_listing.data[i].id)
          /\ hist_listing.data[i].values # <<>> \/ hist_listing.data[i].detail.outcome = "200"

\* the form instances, in the order of submission, that hold for key k a
\* value that is neither null nor blank
holders(k) ==
    {i \in DOMAIN hist_listing.data :
        /\ dict_has(form_values_of(hist_listing.data[i]), k)
        /\ non_empty(dict_get(form_values_of(hist_listing.data[i]), k))}

\* the form instances that hold key k at all
keepers(k) ==
    {i \in DOMAIN hist_listing.data : dict_has(form_values_of(hist_listing.data[i]), k)}

latest(indexes) == CHOOSE i \in indexes : \A j \in indexes : j <= i

\* C19: the value the historic form-instance snapshots contribute for a key
\* is that of the most recently submitted snapshot that holds a non-null,
\* non-blank value for it (null and blank values are discarded before the
\* snapshots are merged), and no blank historic value enters the map.
C19_LatestNonBlankSnapshotWins ==
    historic_merged =>
        \A k \in MergeKeys :
            IF holders(k) = {}
            THEN ~dict_has(values_map, k)
            ELSE /\ dict_has(values_map, k)
                 /\ dict_get(values_map, k)
                        = dict_get(form_values_of(hist_listing.data[latest(holders(k))]), k)

\* The snapshots are merged first and null and blank values are discarded
\* afterwards: the contributed value is that of the most recently submitted
\* snapshot that holds the key, when it is neither null nor blank, and
\* nothing otherwise
LatestSnapshotWinsThenBlankDiscarded ==
    historic_merged =>
        \A k \in MergeKeys :
            IF keepers(k) # {}
               /\ non_empty(dict_get(form_values_of(hist_listing.data[latest(keepers(k))]), k))
            THEN /\ dict_has(values_map, k)
                 /\ dict_get(values_map, k)
                        = dict_get(form_values_of(hist_listing.data[latest(keepers(k))]), k)
            ELSE ~dict_has(values_map, k)

\* No null or blank value enters the map by the historic step, whatever the
\* engine answered
HistoricBlankNeverMerged ==
    merge_pc = "sql" => \A k \in dict_keys(values_map) : non_empty(dict_get(values_map, k))

----------------------------------------------------------------------------
(* task_detail_view on a POST: the initial load, the submission, the reload *)

\* the ValueMap of the initial load: steps 0 to 2
load_values_map(src) ==
    merge_flat(
        merge_fill_gaps(
            merge_fill_gaps(
                merge_rest_task(
                    merge_sql(
                        merge_historic(EmptyMap,
                                       _fetch_historic_form_instances_values(src.listing)),
                        src.variables),
                    src.rest_vars),
                src.proc_vars),
            src.hist_vars),
        src.flat)

\* the reload: `if f.get("id") and f.get("value") is not None: values_map[f["id"]] = f["value"]`
RECURSIVE reload_flat(_, _)
reload_flat(vm, fields) ==
    IF fields = <<>> THEN vm
    ELSE reload_flat(IF is_set(Head(fields).id) /\ Head(fields).value # None
                     THEN dict_set(vm, Head(fields).id, Head(fields).value)
                     ELSE vm,
                     Tail(fields))

\* the ValueMap of the reload after a successful submission: the SQL
\* variables, then the flat form fields
reload_values_map(src) ==
    reload_flat(merge_sql(EmptyMap, src.variables), src.flat)

\* the field of the layout model
LayoutField ==
    [id |-> <<"c","l","i","e","n","t">>, name |-> <<"C","l","i","e","n","t">>, type |-> <<"t","e","x","t">>, value |-> None, options |-> <<>>]

\* a field of the flat form as a field of the form model
model_field(f) ==
    [id |-> f.id, name |-> <<>>, type |-> f.type, value |-> f.value, options |-> <<>>]

\* process_fields n times over the same list of fields
RECURSIVE process_fields(_, _, _)
process_fields(fields, vm, n) ==
    IF n = 0 THEN fields
    ELSE process_fields([i \in DOMAIN fields |-> process_field(fields[i], vm)], vm, n - 1)

\* the fields of the form the initial load renders: the layout, with "rows"
\* wrapped around its "fields" when it has none, else the flat form wrapped
\* likewise; _populate_model_values visits "fields" and then "rows"
load_fields(src, vm) ==
    IF src.layout = "rows" THEN process_fields(<<LayoutField>>, vm, 1)
    ELSE IF src.layout = "fields" THEN process_fields(<<LayoutField>>, vm, 2)
    ELSE process_fields([i \in DOMAIN src.flat |-> model_field(src.flat[i])], vm, 2)

\* the fields of the form the reload renders: the layout as fetched, populated,
\* else the flat form wrapped and not populated
reload_fields(src, vm) ==
    IF src.layout # "none" THEN process_fields(<<LayoutField>>, vm, 1)
    ELSE [i \in DOMAIN src.flat |-> model_field(src.flat[i])]

\* str(e) of the HTTPError raise_for_status raises: the status, its class, the
\* reason phrase and the URL; the body of the response is no part of it
str_of_http_error(o) ==
    <<o.status, IF o.status < 500 THEN "Client Error" ELSE "Server Error", o.reason,
      "for url", "process-api/form/form-data">>

\* the answers of the engine that reject a submission, with the message of
\* the engine in the body
Rejections ==
    [status : {400, 500}, reason : {"Bad Request"}, message : {"Field client is required"}]

PageSources ==
    [listing : {[outcome |-> "200", data |-> <<>>],
                [outcome |-> "200",
                 data |-> <<[id |-> <<"f">>, values |-> <<[key |-> <<"c","l","i","e","n","t">>, value |-> <<"A","c","m","e">>]>>,
                             detail |-> [outcome |-> "404", values |-> <<>>]]>>]},
     variables : {<<>>, <<[key |-> <<"c","l","i","e","n","t">>, value |-> <<"B","e","t","a">>]>>},
     rest_vars : {<<>>, <<[key |-> <<"s","t","a","t","u","s">>, value |-> <<"A","c","m","e">>]>>},
     proc_vars : {<<>>, <<[key |-> <<"c","l","i","e","n","t">>, value |-> <<"A","c","m","e">>]>>},
     hist_vars : {<<>>, <<[key |-> <<"s","t","a","t","u","s">>, value |-> <<"B","e","t","a">>]>>},
     flat : {<<>>,
             <<[id |-> <<"c","l","i","e","n","t">>, value |-> <<"B","e","t","a">>, type |-> <<"t","e","x","t">>]>>,
             <<[id |-> <<"c","l","i","e","n","t">>, value |-> <<>>, type |-> <<"t","e","x","t">>]>>,
             <<[id |-> <<"c","l","i","e","n","t">>, value |-> txt_option_1, type |-> <<"d","r","o","p","d","o","w","n">>]>>},
     layout : {"none", "fields", "rows"}]

\* the initial load of the request
PageLoad(src) ==
    /\ page.pc = "idle"
    /\ page' = [NoPage EXCEPT
                   !.pc = "loaded",
                   !.src = src,
                   !.initial = [vm |-> load_values_map(src),
                                fields |-> load_fields(src, load_values_map(src))],
                   !.shown = [vm |-> load_values_map(src),
                              fields |-> load_fields(src, load_values_map(src))]]
    /\ UNCHANGED nonPageVars

\* _submit_task_form answered (True, ""): the reload
PageSubmitOk ==
    /\ page.pc = "loaded"
    /\ page' = [page EXCEPT
                   !.pc = "rendered",
                   !.submit_success = TRUE,
                   !.shown = [vm |-> reload_values_map(page.src),
                              fields |-> reload_fields(page.src, reload_values_map(page.src))]]
    /\ UNCHANGED nonPageVars

\* _submit_task_form answered (False, str(e)): submit_error = err
PageSubmitRejected(o) ==
    /\ page.pc = "loaded"
    /\ page' = [page EXCEPT !.pc = "rendered",
                            !.submit_error = str_of_http_error(o),
                            !.engine_message = o.message]
    /\ UNCHANGED nonPageVars

\* render(...)
PageDone ==
    /\ page.pc = "rendered"
    /\ page' = NoPage
    /\ UNCHANGED nonPageVars

PageInit ==
    /\ TasksIdle /\ MergeIdle /\ PopIdle /\ ClientIdle /\ BatchIdle /\ SemIdle /\ AccessIdle
    /\ HeadIdle /\ FieldsIdle /\ RowIdle /\ PageIdle /\ StartIdle /\ ResolveIdle /\ PostIdle /\ SubmitIdle

PageNext ==
    \/ \E src \in PageSources : PageLoad(src)
    \/ PageSubmitOk
    \/ \E o \in Rejections : PageSubmitRejected(o)
    \/ PageDone

SpecPage == PageInit /\ [][PageNext]_vars

\* C21: after a successful Submit the ValueMap and the populated fields that
\* task_detail_view renders are the ones the full load pipeline produces for
\* the same sources.
C21_ReloadIsFullLoad ==
    (page.pc = "rendered" /\ page.submit_success) =>
        /\ page.shown.vm = load_values_map(page.src)
        /\ page.shown.fields = load_fields(page.src, load_values_map(page.src))

\* With the SQL variables as the only source that holds a value the two
\* paths build the same ValueMap
ReloadIsFullLoadOfSqlOnly ==
    (/\ page.pc = "rendered" /\ page.submit_success
     /\ page.src.listing.data = <<>> /\ page.src.rest_vars = <<>>
     /\ page.src.proc_vars = <<>> /\ page.src.hist_vars = <<>> /\ page.src.flat = <<>>)
        => page.shown.vm = load_values_map(page.src)

\* C22: when the engine rejects a Submit, the page shows the engine's error
\* message unchanged as submit_error, submit_success stays false, and the
\* ValueMap and the form are as the initial load of the request built them.
C22_RejectionShownVerbatim ==
    (page.pc = "rendered" /\ ~page.submit_success) =>
        /\ page.submit_error = <<page.engine_message>>
        /\ page.shown = page.initial

\* After a rejection nothing is reloaded: submit_success is false, an error
\* is shown, and the ValueMap and the form are those of the initial load
RejectionKeepsInitialLoad ==
    (page.pc = "rendered" /\ page.submit_error # <<>>) =>
        /\ ~page.submit_success
        /\ page.shown = page.initial

----------------------------------------------------------------------------
(* _submit_start_form: the start of a process instance and its fixup       *)

\* os.getenv("FLOWABLE_USER"): the account of this system at the engine
FLOWABLE_USER == "admin"

\* Bound: the tasks the engine creates when the instance starts
MaxStartTasks == 2

\* the assignees the engine may give the tasks of the new instance
CreatedTasks ==
    UNION {[1..n -> [assignee : {NULL, FLOWABLE_USER, "bob"}]] : n \in 0..MaxStartTasks}

\* requests.post(.../runtime/process-instances): a refusal returns
\* (False, message, None); else the instance exists with its tasks
StartPost(user_id, o, created) ==
    /\ started.pc = "idle"
    /\ started' = IF is_exc(o) \/ o.status >= 400
                  THEN [NoStarted EXCEPT !.pc = "returned", !.user_id = user_id]
                  ELSE [pc |-> IF truthy(user_id) THEN "put_initiator" ELSE "returned",
                        user_id |-> user_id, tasks |-> created, i |-> 0]
    /\ UNCHANGED nonStartVars

\* 1. Force update 'initiator' variable; an exception ends the fixup
StartPutInitiator(o) ==
    /\ started.pc = "put_initiator"
    /\ started' = [started EXCEPT !.pc = IF is_exc(o) THEN "returned" ELSE "get_tasks"]
    /\ UNCHANGED nonStartVars

\* 2. the tasks of the instance are listed
StartGetTasks(o) ==
    /\ started.pc = "get_tasks"
    /\ started' = IF is_exc(o) \/ o.status # 200
                  THEN [started EXCEPT !.pc = "returned"]
                  ELSE [started EXCEPT !.pc = "reassign", !.i = 1]
    /\ UNCHANGED nonStartVars

\* a task assigned to FLOWABLE_USER is reassigned: PUT {"assignee": user_id},
\* which the engine applies when it answers 200
StartReassign(o) ==
    /\ started.pc = "reassign"
    /\ started.i <= Len(started.tasks)
    /\ started' =
          IF started.tasks[started.i].assignee # FLOWABLE_USER
          THEN [started EXCEPT !.i = @ + 1]
          ELSE IF is_exc(o) THEN [started EXCEPT !.pc = "returned"]
          ELSE IF o.status = 200
          THEN [started EXCEPT !.tasks[started.i].assignee = started.user_id, !.i = @ + 1]
          ELSE [started EXCEPT !.i = @ + 1]
    /\ UNCHANGED nonStartVars

\* the loop over the tasks ends
StartReassignEnd ==
    /\ started.pc = "reassign"
    /\ started.i > Len(started.tasks)
    /\ started' = [started EXCEPT !.pc = "returned"]
    /\ UNCHANGED nonStartVars

\* process_start_view answers
StartDone ==
    /\ started.pc = "returned"
    /\ started' = NoStarted
    /\ UNCHANGED nonStartVars

StartInit ==
    /\ TasksIdle /\ MergeIdle /\ PopIdle /\ ClientIdle /\ BatchIdle /\ SemIdle /\ AccessIdle
    /\ HeadIdle /\ FieldsIdle /\ RowIdle /\ PageIdle /\ StartIdle /\ ResolveIdle /\ PostIdle /\ SubmitIdle

StartNext ==
    \/ \E u \in Users, o \in EngineOutcomes, c \in CreatedTasks : StartPost(u, o, c)
    \/ \E o \in EngineOutcomes : StartPutInitiator(o)
    \/ \E o \in EngineOutcomes : StartGetTasks(o)
    \/ \E o \in EngineOutcomes : StartReassign(o)
    \/ StartReassignEnd
    \/ StartDone

SpecStart == StartInit /\ [][StartNext]_vars

\* no step but a claim changes the assignee of a task that exists before and
\* after it
OnlyClaimChangesAssignee ==
    /\ \A i \in DOMAIN started.tasks \cap DOMAIN started'.tasks :
          started'.tasks[i].assignee = started.tasks[i].assignee
    /\ \A t \in Tasks :
          hi_taskinst'[t].ASSIGNEE_ # hi_taskinst[t].ASSIGNEE_ => resp'.op = "claim_task_view"

\* C23: no operation of this system other than Claim changes the assignee of
\* a task; starting a process instance and submitting a task form leave the
\* assignee of every task unchanged.
C23_OnlyClaimChangesAssignee == [][OnlyClaimChangesAssignee]_vars

\* Under the task endpoints (detail, lists, claim, submit; SpecTasks) the
\* assignee of a task changes only in a claim
TaskEndpointsKeepAssignee == [][hi_taskinst' # hi_taskinst => OnlyClaimChangesAssignee]_vars

----------------------------------------------------------------------------
(* _load_task_detail: the variable rows of a task become variables_dict    *)

\* Bound: the rows the query returns
MaxVarRows == 3

\* Mutant of is_task_var: no row counts as scoped to the viewed task
is_task_var_never(row) ==
    FALSE

\* is_task_var = (v_task_id == t_id)
is_task_var(row) ==
    row.scope = "task"

\* one turn of the loop: a skipped row changes nothing; a row is stored when
\* its name is new or it is scoped to the viewed task
store_row(variables_dict, row) ==
    IF row_skipped(row) THEN variables_dict
    ELSE IF ~dict_has(variables_dict, row.name) \/ is_task_var(row)
    THEN dict_set(variables_dict, row.name, row_value(row))
    ELSE variables_dict

\* the rows of WHERE PROC_INST_ID_ = %s OR TASK_ID_ = %s: scoped to the
\* viewed task, to the process instance (TASK_ID_ null) or to another task of
\* the instance; a text, a null, a blob without date, a blob with a date
VarRows ==
    [name : {<<"c","l","i","e","n","t">>}, scope : {"task", "process", "other"},
     v_type : {"string"}, v_text : {None, <<"A","c","m","e">>, <<"B","e","t","a">>},
     v_long : {None}, v_double : {None}, v_bytes : {<<>>}]
    \cup
    [name : {<<"c","l","i","e","n","t">>}, scope : {"task", "process", "other"},
     v_type : {"serializable"}, v_text : {None}, v_long : {None}, v_double : {None},
     v_bytes : {<<172, 237>>, Marker \o <<0, 0, 1, 139, 207, 229, 104, 0>>}]

\* the results of the query in every order; a variable has one row per scope
\* (viewed task, process instance)
VarRowLists ==
    {l \in UNION {[1..n -> VarRows] : n \in 0..MaxVarRows} :
        \A i, j \in DOMAIN l :
            (l[i].name = l[j].name /\ l[i].scope = l[j].scope /\ l[i].scope # "other")
                => i = j}

\* cursor.fetchall()
ResolveBegin(rows) ==
    /\ resolving.pc = "idle"
    /\ resolving' = [pc |-> "loop", rows |-> rows, i |-> 1, variables_dict |-> <<>>]
    /\ UNCHANGED nonResolveVars

\* the loop body on the next row
ResolveVarRow ==
    /\ resolving.pc = "loop"
    /\ resolving.i <= Len(resolving.rows)
    /\ resolving' = [resolving EXCEPT
                        !.variables_dict = store_row(@, resolving.rows[resolving.i]),
                        !.i = @ + 1]
    /\ UNCHANGED nonResolveVars

\* variables = list(variables_dict.values())
ResolveEnd ==
    /\ resolving.pc = "loop"
    /\ resolving.i > Len(resolving.rows)
    /\ resolving' = [resolving EXCEPT !.pc = "done"]
    /\ UNCHANGED nonResolveVars

ResolveDone ==
    /\ resolving.pc = "done"
    /\ resolving' = NoResolving
    /\ UNCHANGED nonResolveVars

ResolveInit ==
    /\ TasksIdle /\ MergeIdle /\ PopIdle /\ ClientIdle /\ BatchIdle /\ SemIdle /\ AccessIdle
    /\ HeadIdle /\ FieldsIdle /\ RowIdle /\ PageIdle /\ StartIdle /\ ResolveIdle /\ PostIdle /\ SubmitIdle

ResolveNext ==
    \/ \E rows \in VarRowLists : ResolveBegin(rows)
    \/ ResolveVarRow
    \/ ResolveEnd
    \/ ResolveDone

SpecResolve == ResolveInit /\ [][ResolveNext]_vars

\* the rows of name n that are scoped to the viewed task
task_rows(n) ==
    {i \in DOMAIN resolving.rows :
        resolving.rows[i].name = n /\ resolving.rows[i].scope = "task"}

\* the rows of name n that are not left out as blobs without a date
valued_rows(n) ==
    {i \in DOMAIN resolving.rows :
        resolving.rows[i].name = n /\ ~row_skipped(resolving.rows[i])}

\* C24 (amended): for every variable name that has a row scoped to the viewed
\* task which is not left out as an unparseable blob, the resolved value is
\* that row's value, whatever the order of the rows; a value of another scope
\* is used only when no such row exists, and a name without any such row of
\* any scope is not resolved.
C24_TaskScopedValuedRowWins ==
    resolving.pc = "done" =>
        \A n \in {<<"c","l","i","e","n","t">>} :
            /\ \A i \in task_rows(n) \cap valued_rows(n) :
                  /\ dict_has(resolving.variables_dict, n)
                  /\ dict_get(resolving.variables_dict, n) = row_value(resolving.rows[i])
            /\ dict_has(resolving.variables_dict, n) <=> valued_rows(n) # {}
            /\ (dict_has(resolving.variables_dict, n) /\ task_rows(n) \cap valued_rows(n) = {})
                  => \E i \in valued_rows(n) :
                         dict_get(resolving.variables_dict, n) = row_value(resolving.rows[i])

\* C24 witness: the process-scoped row came first, the task-scoped row after
\* it, and the resolved value is the task-scoped one
C24_Witness ==
    /\ resolving.pc = "done"
    /\ Len(resolving.rows) = 2
    /\ resolving.rows[1].scope = "process" /\ resolving.rows[1].v_text = <<"A","c","m","e">>
    /\ resolving.rows[2].scope = "task" /\ resolving.rows[2].v_text = <<"B","e","t","a">>
    /\ dict_get(resolving.variables_dict, <<"c","l","i","e","n","t">>) = <<"B","e","t","a">>

\* C24 as stated: for every variable name that has a row scoped to the viewed
\* task, the resolved value is that row's value; a value of another scope is
\* used only when no row scoped to the viewed task exists.
C24_TaskScopedRowWins ==
    resolving.pc = "done" =>
        \A n \in {<<"c","l","i","e","n","t">>} :
            \A i \in task_rows(n) :
                dict_has(resolving.variables_dict, n) =>
                    dict_get(resolving.variables_dict, n) = row_value(resolving.rows[i])

----------------------------------------------------------------------------
(* The expression step against the three lookups of the specification      *)

\* the value a placeholder stands for: the first of the exact, the case-folded
\* and the separator-stripped lookup that gives a value, else none
placeholder_value(var_name, vm) ==
    LET nm == normalized_map(vm)
        fm == fuzzy_map(vm)
        exact == IF dict_has(vm, var_name) THEN dict_get(vm, var_name) ELSE None
        folded == IF dict_has(nm, lower(var_name)) THEN dict_get(nm, lower(var_name)) ELSE None
        stripped == IF dict_has(fm, clean_key(lower(var_name)))
                    THEN dict_get(fm, clean_key(lower(var_name))) ELSE None
    IN  IF exact # None THEN exact
        ELSE IF folded # None THEN folded
        ELSE IF stripped # None THEN stripped
        ELSE <<>>

\* the content with every placeholder replaced by the value it stands for
RECURSIVE substituted(_, _)
substituted(s, vm) ==
    IF s = <<>> THEN s
    ELSE IF match_end(s) > 0
         THEN placeholder_value(SubSeq(s, 3, match_end(s) - 1), vm)
                  \o substituted(SubSeq(s, match_end(s) + 1, Len(s)), vm)
    ELSE <<Head(s)>> \o substituted(Tail(s), vm)

\* the key of the field whose content the expression step works on
content_key_of(field) ==
    IF field.type \in ExpressionTypes /\ ~is_true(field.value) /\ is_true(field.name)
    THEN "name" ELSE "value"

PlaceholdersResolved ==
    (/\ pop_pc = "expression"
     /\ pop_pc' = "date"
     /\ is_true(pop_field[content_key_of(pop_field)])
     /\ contains(pop_field[content_key_of(pop_field)], <<"$","{">>))
        => pop_field'[content_key_of(pop_field)]
               = substituted(pop_field[content_key_of(pop_field)], pop_map)

\* C25: in the expression step every ${identifier} placeholder is replaced by
\* the ValueMap value of the exact, else the case-folded, else the
\* separator-stripped lookup, and a placeholder without a value (key absent,
\* or present with a null value) is replaced by the empty string.
C25_PlaceholdersResolved == [][PlaceholdersResolved]_vars

\* With a ValueMap that holds no null value the placeholders are replaced as
\* specified.
PlaceholdersOfSetValuesResolved ==
    [][(\A i \in DOMAIN pop_map : pop_map[i].value # None) => PlaceholdersResolved]_vars

----------------------------------------------------------------------------
(* The permission flags of a task detail                                   *)

\* the details _load_task_detail returns in this state
details == {d \in {_load_task_detail(u, t) : u \in Users, t \in Tasks} : "id" \in DOMAIN d}

\* C26: every detail returned by _load_task_detail has exactly one of
\* is_assignee and can_claim true, and can_claim is true only when the task
\* has no assignee.
C26_AssigneeOrClaimable ==
    \A d \in details :
        /\ d.is_assignee # d.can_claim
        /\ d.can_claim => hi_taskinst[d.id].ASSIGNEE_ = NULL

\* C26 witness: a detail has been rendered to its assignee while a candidate
\* of another, unassigned task is returned a detail that can be claimed
C26_Witness ==
    /\ resp.body = "task_detail"
    /\ \E d \in details : d.is_assignee /\ ~d.can_claim /\ d.assignee = resp.requester
    /\ \E d \in details : d.can_claim /\ ~d.is_assignee /\ d.assignee = NULL

----------------------------------------------------------------------------
(* The outcomes of delete_process_instance                                 *)

\* the history delete was sent
history_attempted == Len(client.met) = 2

\* the request was answered with this status
answered_with(o, status) == ~is_exc(o) /\ o.status = status

\* C27: delete_process_instance attempts the history delete only when the
\* runtime delete answered 404 or could not connect; any other error status of
\* the runtime delete gives (False, 'RUNTIME_ERROR: ...') with no history
\* delete; a 404 from both deletes gives (False, 'NOT_FOUND'); and
\* 'CONNECTION_ERROR' is returned only when the history delete got no HTTP
\* response.
C27_DeleteOutcomes ==
    client.fn = "delete_process_instance" =>
        LET r == client.met[1]
        IN  /\ history_attempted => (is_exc(r) \/ answered_with(r, 404))
            /\ (~is_exc(r) /\ http_error(r) /\ r.status # 404)
                   => (client.value = "(False, RUNTIME_ERROR)" /\ ~history_attempted)
            /\ (history_attempted /\ answered_with(r, 404) /\ answered_with(client.met[2], 404))
                   => client.value = "(False, NOT_FOUND)"
            /\ client.value = "(False, CONNECTION_ERROR)"
                   => (history_attempted /\ is_exc(client.met[2]))

\* A runtime delete answered with 200 or 204 ends the deletion, and the history
\* delete is sent exactly when the runtime delete gave no response or an error
\* status.
HistoryDeleteAfterFailedRuntimeDelete ==
    client.fn = "delete_process_instance" =>
        LET r == client.met[1]
        IN  /\ (answered_with(r, 200) \/ answered_with(r, 204))
                   => (client.value = "(True, DELETED_RUNTIME)" /\ ~history_attempted)
            /\ history_attempted <=> (is_exc(r) \/ http_error(r))

----------------------------------------------------------------------------
(* A field visited twice by _populate_model_values                         *)

\* the second visit of the field leaves value, options and name as they are
second_pass_keeps(field, vm) ==
    LET again == process_field(field, vm)
    IN  /\ again.value = field.value
        /\ again.options = field.options
        /\ again.name = field.name

\* C28: _populate_model_values is idempotent on a field: processing a field a
\* second time with the same ValueMap leaves its value, options and name as
\* the first pass left them.
C28_SecondPassKeepsField ==
    pop_pc = "done" => second_pass_keeps(pop_field, pop_map)

----------------------------------------------------------------------------
(* A POST to task_detail_view served while other users send requests       *)

\* task_detail_view: detail = _load_task_detail(flowable_user_id, task_id)
PostLoad(user, task_id, error) ==
    LET detail == _load_task_detail(user, task_id)
    IN  /\ post.pc = "idle"
        /\ sent' = NoCall
        /\ UNCHANGED <<dbVars, nonPostTaskVars>>
        /\ IF "id" \notin DOMAIN detail
           THEN /\ resp' = response("task_detail_view", user, task_id, 404,
                                    task_not_found_page(error).body, {})
                /\ post' = [NoPost EXCEPT !.pc = "rendered", !.user = user, !.task = task_id]
           ELSE /\ resp' = NoResp
                /\ post' = [NoPost EXCEPT !.pc = "loaded", !.user = user, !.task = task_id,
                                          !.was_assignee = detail.is_assignee]

\* the uploads and _submit_task_form(task_id, properties, outcome)
PostSubmit(uploads_ok, outcome) ==
    /\ post.pc = "loaded"
    /\ UNCHANGED <<ru_identitylink, ru_raises, hi_identitylink, hi_varinst_proc, nonPostTaskVars>>
    /\ IF ~uploads_ok
       THEN /\ resp' = response("task_detail_view", post.user, post.task, 200,
                                "submit_error", {post.task})
            /\ sent' = NoCall
            /\ hi_taskinst' = hi_taskinst
            /\ post' = [post EXCEPT !.pc = "rendered"]
       ELSE /\ outcome \in submit_outcomes(post.task)
            /\ sent' = engine_call("submit", post.user, post.task)
            /\ IF outcome = "2xx"
               THEN /\ hi_taskinst' = [hi_taskinst EXCEPT ![post.task].ended = TRUE]
                    /\ resp' = NoResp
                    /\ post' = [post EXCEPT !.pc = "submitted"]
               ELSE /\ hi_taskinst' = hi_taskinst
                    /\ resp' = response("task_detail_view", post.user, post.task, 200,
                                        "submit_error", {post.task})
                    /\ post' = [post EXCEPT !.pc = "rendered"]

\* if ok: detail = _load_task_detail(...); detail["status"] ...; render
PostReload ==
    LET detail == _load_task_detail(post.user, post.task)
    IN  /\ post.pc = "submitted"
        /\ resp' = IF "id" \notin DOMAIN detail
                   THEN response("task_detail_view", post.user, post.task, 500, "TypeError", {})
                   ELSE response("task_detail_view", post.user, post.task, 200,
                                 "submit_success", {post.task})
        /\ post' = [post EXCEPT !.pc = "rendered"]
        /\ UNCHANGED <<sent, dbVars, nonPostTaskVars>>

\* the response is sent
PostDone ==
    /\ post.pc = "rendered"
    /\ post' = NoPost
    /\ resp' = NoResp
    /\ sent' = NoCall
    /\ UNCHANGED <<dbVars, nonPostTaskVars>>

\* claim_task_view of another user's request, served while the POST is
PostOtherClaim(user, task_id, outcome) ==
    /\ post.pc \in {"loaded", "submitted"}
    /\ user # post.user
    /\ post.claimed_by = NULL
    /\ outcome \in claim_outcomes(task_id, claim_user_id(user))
    /\ IF outcome = "200"
       THEN /\ hi_taskinst' = [hi_taskinst EXCEPT ![task_id].ASSIGNEE_ = claim_user_id(user)]
            /\ post' = [post EXCEPT !.claimed_by = user]
       ELSE /\ hi_taskinst' = hi_taskinst
            /\ post' = post
    /\ UNCHANGED <<resp, sent, ru_identitylink, ru_raises, hi_identitylink, hi_varinst_proc,
                   nonPostTaskVars>>

PostInit ==
    /\ hi_taskinst \in TaskRows
    /\ hi_varinst_proc = {"p1", "p2"}
    /\ ru_identitylink \in SUBSET LinkRows
    /\ hi_identitylink \in SUBSET LinkRows
    /\ Cardinality(ru_identitylink) + Cardinality(hi_identitylink) <= MaxLinks
    /\ ru_raises = FALSE
    /\ resp = NoResp
    /\ sent = NoCall
    /\ MergeIdle /\ PopIdle /\ ClientIdle /\ BatchIdle /\ SemIdle /\ AccessIdle /\ HeadIdle
    /\ FieldsIdle /\ RowIdle /\ PageIdle /\ StartIdle /\ ResolveIdle /\ PostIdle /\ SubmitIdle

PostNext ==
    \/ \E u \in Users, t \in TaskIds, e \in ErrorParams :
          PostLoad(u, t, e)
    \/ \E up \in BOOLEAN, o \in {"2xx", "error"} : PostSubmit(up, o)
    \/ PostReload
    \/ PostDone
    \/ \E u \in Users, t \in Tasks, o \in {"200", "error"} : PostOtherClaim(u, t, o)

SpecPost == PostInit /\ [][PostNext]_vars

\* the POST was answered after _submit_task_form had succeeded
submitted_and_answered ==
    post.pc = "rendered" /\ sent.kind = "submit" /\ hi_taskinst[post.task].ended
        /\ resp.body \in {"submit_success", "TypeError"}

\* C29: whatever other users' requests are served between the steps of a POST
\* whose form submission succeeds, task_detail_view ends with a rendered
\* response: the reload after the submission finds the task detail.
C29_ReloadFindsDetail ==
    submitted_and_answered => (resp.status = 200 /\ resp.body = "submit_success")

\* The POST of the task's assignee ends with the rendered page, whatever the
\* other users claim meanwhile.
AssigneeReloadFindsDetail ==
    (submitted_and_answered /\ post.was_assignee)
        => (resp.status = 200 /\ resp.body = "submit_success")

----------------------------------------------------------------------------
(* The uploads and the submission payload of a POST to task_detail_view    *)

txt_upload_ == <<"u","p","l","o","a","d","_">>

\* key.startswith("upload_")
startswith(s, prefix) == Len(s) >= Len(prefix) /\ SubSeq(s, 1, Len(prefix)) = prefix

\* field_id = key[7:]
upload_field_id(key) == SubSeq(key, 8, Len(key))

\* Mutant of property_value: a checkbox is sent as it was posted
property_value_as_posted(field, POST) ==
    IF dict_has(POST, field.id) THEN dict_get(POST, field.id) ELSE <<>>

\* the value sent for a field: "true"/"false" for a boolean, else the posted
\* value or ""
property_value(field, POST) ==
    IF field.type = txt_boolean
    THEN IF dict_has(POST, field.id) /\ dict_get(POST, field.id) # <<>> THEN <<"t","r","u","e">> ELSE <<"f","a","l","s","e">>
    ELSE IF dict_has(POST, field.id) THEN dict_get(POST, field.id) ELSE <<>>

\* collect_fields(f_list): each field, followed by the fields nested in it
RECURSIVE collect_fields(_)
collect_fields(f_list) ==
    IF f_list = <<>> THEN <<>>
    ELSE <<Head(f_list)>> \o Head(f_list).fields \o collect_fields(Tail(f_list))

\* fields_source: the flat fields, or the fields of the layout when there are none
fields_source(form) ==
    IF form.flat # <<>> THEN form.flat ELSE collect_fields(form.layout)

\* for field in fields_source: properties.append({"id": field_id, "value": value})
RECURSIVE properties_of(_, _)
properties_of(fields, POST) ==
    IF fields = <<>> THEN <<>>
    ELSE IF ~is_true(Head(fields).id) THEN properties_of(Tail(fields), POST)
    ELSE IF Head(fields).readOnly THEN properties_of(Tail(fields), POST)
    ELSE <<[id |-> Head(fields).id, value |-> property_value(Head(fields), POST)]>>
             \o properties_of(Tail(fields), POST)

\* Bounds of a request: the files it carries and the fields of its form
MaxFiles == 2

MaxFormFields == 2

\* the files of a request: the key and the engine's answer to its upload
RequestFiles ==
    [key : {<<"u","p","l","o","a","d","_","p","h","o","t","o">>}, o : {Resp(200), Resp(500)}]
    \cup [key : {<<"u","p","l","o","a","d","_","d","o","c">>}, o : {Resp(200)}]
    \cup [key : {<<"p","h","o","t","o">>}, o : {Exc("Timeout")}]

\* request.FILES: an ordered mapping, so no key comes twice
FileLists ==
    {fs \in UNION {[1..n -> RequestFiles] : n \in 0..MaxFiles} :
        \A a, b \in DOMAIN fs : a # b => fs[a].key # fs[b].key}

LeafFields ==
    {[id |-> None, type |-> <<"t","e","x","t">>, readOnly |-> FALSE, fields |-> <<>>],
     [id |-> <<"c","l","i","e","n","t">>, type |-> <<"t","e","x","t">>, readOnly |-> FALSE, fields |-> <<>>],
     [id |-> <<"c","l","i","e","n","t">>, type |-> <<"t","e","x","t">>, readOnly |-> TRUE, fields |-> <<>>],
     [id |-> <<"a","g","r","e","e">>, type |-> txt_boolean, readOnly |-> FALSE, fields |-> <<>>]}

\* a container of the layout with a field nested in it
ContainerFields ==
    {[id |-> None, type |-> <<"c","o","n","t","a","i","n","e","r">>, readOnly |-> FALSE,
      fields |-> <<[id |-> <<"a","g","r","e","e">>, type |-> txt_boolean, readOnly |-> FALSE, fields |-> <<>>]>>]}

\* the fields of a layout: a plain field or a container
LayoutFields ==
    ContainerFields \cup {[id |-> <<"c","l","i","e","n","t">>, type |-> <<"t","e","x","t">>, readOnly |-> FALSE, fields |-> <<>>]}

\* the forms of a task: flat fields, or a layout only, or both
Forms ==
    {[flat |-> f, layout |-> <<>>] : f \in UNION {[1..n -> LeafFields] : n \in 0..MaxFormFields}}
    \cup {[flat |-> <<>>, layout |-> l] :
              l \in UNION {[1..n -> LayoutFields] : n \in 1..MaxFormFields}}
    \cup {[flat |-> <<f>>, layout |-> <<g>>] : f, g \in LayoutFields \cap LeafFields}

\* request.POST
PostData ==
    {EmptyMap,
     <<[key |-> <<"a","g","r","e","e">>, value |-> <<>>]>>,
     <<[key |-> <<"c","l","i","e","n","t">>, value |-> <<"A","c","m","e">>], [key |-> <<"a","g","r","e","e">>, value |-> <<"o","n">>]>>}

\* a POST reaches `if request.method == "POST"`
SubmitBegin(FILES, form, POST) ==
    /\ posting.pc = "idle"
    /\ posting' = [NoPosting EXCEPT !.pc = "uploads", !.FILES = FILES, !.form = form,
                                    !.POST = POST, !.i = 1]
    /\ UNCHANGED nonSubmitVars

\* one turn of `for key, file_obj in request.FILES.items()`
SubmitUpload ==
    LET file == posting.FILES[posting.i]
        ok == _upload_content_item(file.o).value = "(True, '')"
    IN  /\ posting.pc = "uploads"
        /\ posting.i <= Len(posting.FILES)
        /\ posting' =
             IF startswith(file.key, txt_upload_)
             THEN [posting EXCEPT
                      !.i = @ + 1,
                      !.log = Append(@, [kind |-> "upload",
                                         field |-> upload_field_id(file.key),
                                         properties |-> <<>>]),
                      !.upload_errors = IF ok THEN @ ELSE Append(@, file.key)]
             ELSE [posting EXCEPT !.i = @ + 1]
        /\ UNCHANGED nonSubmitVars

\* if upload_errors: submit_error = "; ".join(upload_errors)
SubmitUploadErrors ==
    /\ posting.pc = "uploads"
    /\ posting.i > Len(posting.FILES)
    /\ posting.upload_errors # <<>>
    /\ posting' = [posting EXCEPT !.pc = "rendered", !.submit_error = TRUE]
    /\ UNCHANGED nonSubmitVars

\* else: the properties are built and _submit_task_form is called
SubmitForm(o) ==
    /\ posting.pc = "uploads"
    /\ posting.i > Len(posting.FILES)
    /\ posting.upload_errors = <<>>
    /\ posting' = [posting EXCEPT
                      !.pc = "rendered",
                      !.log = Append(@, [kind |-> "submit", field |-> <<>>,
                                         properties |-> properties_of(fields_source(posting.form),
                                                                      posting.POST)]),
                      !.submit_success = (_submit_task_form(o, o).value = "(True, '')"),
                      !.submit_error = (_submit_task_form(o, o).value # "(True, '')")]
    /\ UNCHANGED nonSubmitVars

\* render(...)
SubmitDone ==
    /\ posting.pc = "rendered"
    /\ posting' = NoPosting
    /\ UNCHANGED nonSubmitVars

SubmitInit ==
    /\ TasksIdle /\ MergeIdle /\ PopIdle /\ ClientIdle /\ BatchIdle /\ SemIdle /\ AccessIdle
    /\ HeadIdle /\ FieldsIdle /\ RowIdle /\ PageIdle /\ StartIdle /\ ResolveIdle /\ PostIdle
    /\ SubmitIdle

SubmitNext ==
    \/ \E FILES \in FileLists, form \in Forms, POST \in PostData : SubmitBegin(FILES, form, POST)
    \/ SubmitUpload
    \/ SubmitUploadErrors
    \/ \E o \in {Resp(200), Resp(500)} : SubmitForm(o)
    \/ SubmitDone

SpecSubmit == SubmitInit /\ [][SubmitNext]_vars

\* the files of the request that are uploads, in the order of request.FILES
RECURSIVE upload_files(_)
upload_files(FILES) ==
    IF FILES = <<>> THEN <<>>
    ELSE IF startswith(Head(FILES).key, txt_upload_)
         THEN <<Head(FILES)>> \o upload_files(Tail(FILES))
    ELSE upload_files(Tail(FILES))

\* every field of the form: the flat fields, or those of the layout with the
\* fields nested in them
RECURSIVE form_fields(_)
form_fields(fields) ==
    IF fields = <<>> THEN <<>>
    ELSE <<Head(fields)>> \o form_fields(Head(fields).fields) \o form_fields(Tail(fields))

\* the fields that are to be sent: those with an id that are not readOnly
sendable(form) ==
    SelectSeq(form_fields(IF form.flat # <<>> THEN form.flat ELSE form.layout),
              LAMBDA f : f.id # None /\ f.id # <<>> /\ ~f.readOnly)

\* the uploads sent so far are those of the first n upload files
uploads_sent(n) ==
    /\ Len(posting.log) >= n
    /\ \A k \in 1..n :
          /\ posting.log[k].kind = "upload"
          /\ posting.log[k].field = upload_field_id(upload_files(posting.FILES)[k].key)

\* the payload has one entry per field to be sent, a boolean as true or false
payload_as_specified(properties) ==
    LET fields == sendable(posting.form)
    IN  /\ Len(properties) = Len(fields)
        /\ \A k \in DOMAIN fields :
              /\ properties[k].id = fields[k].id
              /\ IF fields[k].type = txt_boolean
                 THEN /\ properties[k].value \in {<<"t","r","u","e">>, <<"f","a","l","s","e">>}
                      /\ properties[k].value = <<"t","r","u","e">>
                           <=> (dict_has(posting.POST, fields[k].id)
                                /\ dict_get(posting.POST, fields[k].id) # <<>>)
                 ELSE properties[k].value =
                          IF dict_has(posting.POST, fields[k].id)
                          THEN dict_get(posting.POST, fields[k].id) ELSE <<>>

\* C30: in a POST to task_detail_view the uploads of the files keyed
\* upload_<fieldId> are all attempted before the form submission; if at least
\* one upload fails no submission is posted; and the payload, when it is sent,
\* holds exactly one {id, value} entry per field that has an id and is not
\* readOnly, a boolean being encoded as 'true' or 'false'.
C30_UploadsThenPayload ==
    LET ups == upload_files(posting.FILES)
        failed == \E k \in DOMAIN ups : ~response_ok(ups[k].o)
        n == Len(ups)
    IN  /\ posting.pc = "rendered" => uploads_sent(n)
        /\ \A k \in DOMAIN posting.log :
              posting.log[k].kind = "submit" =>
                  /\ k = n + 1
                  /\ uploads_sent(n)
                  /\ ~failed
                  /\ payload_as_specified(posting.log[k].properties)
        /\ (posting.pc = "rendered" /\ failed) => Len(posting.log) = n
        /\ (posting.pc = "rendered" /\ ~failed) => Len(posting.log) = n + 1

\* C30 witness: two uploads went through and the form was submitted with a
\* checkbox that was ticked, a read-only field being left out
C30_Witness ==
    /\ posting.pc = "rendered"
    /\ Len(posting.log) = 3
    /\ posting.log[3].kind = "submit"
    /\ \E k \in DOMAIN posting.log[3].properties :
          posting.log[3].properties[k] = [id |-> <<"a","g","r","e","e">>, value |-> <<"t","r","u","e">>]
    /\ \E k \in DOMAIN posting.form.flat : posting.form.flat[k].readOnly

====
